---- MODULE Spec2Model ----
(***************************************************************************)
(* LoadBalancer reconciliation of the CloudStack Kubernetes provider       *)
(* (cloudstack_loadbalancer.go, protocol.go).  The CloudStack side is a    *)
(* set of LB rules, firewall rules and allocated public IPs; every         *)
(* handler (EnsureLoadBalancer, UpdateLoadBalancer,                        *)
(* EnsureLoadBalancerDeleted) is one action that runs the handler's code   *)
(* against it and records the API calls it issued, in order.               *)
(***************************************************************************)
EXTENDS Integers, Sequences, FiniteSets, TLC

VARIABLES
  service,      \* the v1.Service handed to the handlers
  nodes,        \* the names of the v1.Node objects handed to the handlers
  lbRules,      \* CloudStack: LB rules of the service, by rule name
  fwRules,      \* CloudStack: firewall rules
  allocated,    \* CloudStack: IDs of the allocated public IPs
  byController, \* history: IDs of the allocated IPs that the controller associated
  stable,       \* history: the last handler call was an Ensure that succeeded, and neither
                \* the Service nor the nodes have changed since
  last,         \* history: the handler call that has just returned (calls issued, result,
                \* state before), until the service controller has taken the result
  probe         \* the call of a pure function under test (inputs and result)

vars == <<service, nodes, lbRules, fwRules, allocated, byController, stable, last, probe>>

----------------------------------------------------------------------------
(* Bounds *)

\* how many API calls of one handler run may fail
MaxFailures == 1
\* how many ports a Service has at most
MaxPorts == 2
\* longest host-ID / instance list given to symmetricDifference
MaxDiffLen == 3
\* the number of virtual machines in a list response
MaxVms == 3
\* the length of a CIDR list
MaxCidrs == 3

----------------------------------------------------------------------------
(* Generic helpers *)

RECURSIVE SeqToSet(_)
SeqToSet(s) ==
  IF s = <<>> THEN {} ELSE {Head(s)} \cup SeqToSet(Tail(s))

RECURSIVE SelectSeqBy(_, _)
\* the subsequence of s whose elements are in S
SelectSeqBy(s, S) ==
  IF s = <<>> THEN <<>>
  ELSE IF Head(s) \in S THEN <<Head(s)>> \o SelectSeqBy(Tail(s), S)
  ELSE SelectSeqBy(Tail(s), S)

\* all orders in which the elements of the finite set S can be enumerated
Perms(S) ==
  {p \in [1..Cardinality(S) -> S] : \A i, j \in 1..Cardinality(S) : p[i] = p[j] => i = j}

\* all sequences over S of length at most n
SeqsUpTo(S, n) ==
  UNION {[1..k -> S] : k \in 0..n}

\* how many entries of the sequence s satisfy being in S
RECURSIVE CountIn(_, _)
CountIn(s, S) ==
  IF s = <<>> THEN 0
  ELSE (IF Head(s) \in S THEN 1 ELSE 0) + CountIn(Tail(s), S)

\* the number of occurrences of x in the sequence s
Occ(s, x) ==
  Cardinality({i \in 1..Len(s) : s[i] = x})

----------------------------------------------------------------------------
(* strconv.Itoa / strconv.ParseInt on the decimal digits of a port number *)

RECURSIVE Itoa(_)
Itoa(n) ==
  IF n < 10 THEN <<n>> ELSE Append(Itoa(n \div 10), n % 10)

RECURSIVE ParseInt(_)
ParseInt(s) ==
  IF Len(s) = 1 THEN s[1]
  ELSE 10 * ParseInt(SubSeq(s, 1, Len(s) - 1)) + s[Len(s)]

\* whether strconv.ParseInt returns an error for the string
ParseIntErr(s) ==
  Len(s) = 0 \/ \E i \in 1..Len(s) : s[i] \notin 0..9

----------------------------------------------------------------------------
(* protocol.go *)

LoadBalancerProtocolTCP == "LoadBalancerProtocolTCP"
LoadBalancerProtocolUDP == "LoadBalancerProtocolUDP"
LoadBalancerProtocolTCPProxy == "LoadBalancerProtocolTCPProxy"
LoadBalancerProtocolInvalid == "LoadBalancerProtocolInvalid"

CSProtocol(p) ==
  CASE p = LoadBalancerProtocolTCP -> "tcp"
    [] p = LoadBalancerProtocolUDP -> "udp"
    [] p = LoadBalancerProtocolTCPProxy -> "tcp-proxy"
    [] OTHER -> ""

IPProtocol(p) ==
  CASE p = LoadBalancerProtocolTCP -> "tcp"
    [] p = LoadBalancerProtocolTCPProxy -> "tcp"
    [] p = LoadBalancerProtocolUDP -> "udp"
    [] OTHER -> ""

\* annotations: the map from the annotation keys of the Service to their values
ServiceAnnotationLoadBalancerProxyProtocol ==
  "service.beta.kubernetes.io/cloudstack-load-balancer-proxy-protocol"

ProtocolFromServicePort(port, annotations) ==
  LET proxy == ServiceAnnotationLoadBalancerProxyProtocol \in DOMAIN annotations
  IN CASE port.Protocol = "TCP" ->
            IF proxy THEN LoadBalancerProtocolTCPProxy ELSE LoadBalancerProtocolTCP
       [] port.Protocol = "UDP" -> LoadBalancerProtocolUDP
       [] OTHER -> LoadBalancerProtocolInvalid

ProtocolFromLoadBalancer(protocol) ==
  CASE protocol = "tcp" -> LoadBalancerProtocolTCP
    [] protocol = "udp" -> LoadBalancerProtocolUDP
    [] protocol = "tcp-proxy" -> LoadBalancerProtocolTCPProxy
    [] OTHER -> LoadBalancerProtocolInvalid

----------------------------------------------------------------------------
(* The CloudStack installation the controller talks to *)

defaultAllowedCIDR == "0.0.0.0/0"

\* the public IP addresses of the zone: ID and address
PublicIps ==
  { [Id |-> "ip-1", Ipaddress |-> "203.0.113.1"],
    [Id |-> "ip-2", Ipaddress |-> "203.0.113.2"] }

IpIds == {ip.Id : ip \in PublicIps}

AddrOfId(id) ==
  (CHOOSE ip \in PublicIps : ip.Id = id).Ipaddress

\* the virtual machines, as ListVirtualMachines returns them
VirtualMachines ==
  << [Name |-> "Node1", Id |-> "vm-1", Networkid |-> "net-1"],
     [Name |-> "node2", Id |-> "vm-2", Networkid |-> "net-1"] >>

\* strings.ToLower on the names in use
ToLower(s) ==
  CASE s = "Node1" -> "node1"
    [] s = "NODE2" -> "node2"
    [] s = "NODE4" -> "node4"
    [] s = "Node1.Example.COM" -> "node1.example.com"
    [] OTHER -> s

\* the virtual machines that ListVirtualMachines returns in this run
ListedVirtualMachines ==
  IF probe.fn = "verifyHosts" THEN probe.vms ELSE VirtualMachines

FailableCalls ==
  { "ListLoadBalancerRules", "ListVirtualMachines", "ListPublicIpAddresses",
    "GetNetworkByID", "AssociateIpAddress", "DisassociateIpAddress",
    "CreateLoadBalancerRule", "UpdateLoadBalancerRule", "DeleteLoadBalancerRule",
    "AssignToLoadBalancerRule", "RemoveFromLoadBalancerRule",
    "ListLoadBalancerRuleInstances",
    "ListFirewallRules", "CreateFirewallRule", "DeleteFirewallRule" }

MutatingCalls ==
  { "AssociateIpAddress", "DisassociateIpAddress",
    "CreateLoadBalancerRule", "UpdateLoadBalancerRule", "DeleteLoadBalancerRule",
    "AssignToLoadBalancerRule", "RemoveFromLoadBalancerRule",
    "CreateFirewallRule", "DeleteFirewallRule" }

\* a failure plan of a run is a set of pairs <<call, k>>: the k-th invocation of the
\* call fails

\* an API call as logged: what was called, on which rule / IP / port, and whether it succeeded
Entry(call, by, rule, ip, proto, port, arg, ok) ==
  [call |-> call, by |-> by, rule |-> rule, ip |-> ip, proto |-> proto,
   port |-> port, arg |-> arg, ok |-> ok]

\* the number of invocations of call logged so far
Invocations(log, call) ==
  Cardinality({i \in 1..Len(log) : log[i].call = call})

\* whether the next invocation of call fails under the plan of the run
Fails(c, call) ==
  <<call, Invocations(c.log, call) + 1>> \in c.F

\* the pairs <<call, k>> of the invocations in a log
FailurePoints(log) ==
  {<<log[i].call, Invocations(SubSeq(log, 1, i), log[i].call)>> : i \in 1..Len(log)}

\* the run's context after the call was issued
Issue(c, e) ==
  [c EXCEPT !.log = Append(@, e), !.ok = e.ok]

----------------------------------------------------------------------------
(* compareStringSlice *)

\* diff: the map string -> int, as the function on its keys
MapInc(diff, k) ==
  [e \in DOMAIN diff \cup {k} |->
     IF e = k THEN (IF k \in DOMAIN diff THEN diff[k] ELSE 0) + 1 ELSE diff[e]]

RECURSIVE CountUp(_, _)
\* for _, _x := range x { diff[_x]++ }
CountUp(diff, x) ==
  IF x = <<>> THEN diff ELSE CountUp(MapInc(diff, Head(x)), Tail(x))

RECURSIVE CountDown(_, _)
\* the loop over y: FALSE when it bails out early, else whether diff ends empty
CountDown(diff, y) ==
  IF y = <<>> THEN DOMAIN diff = {}
  ELSE IF Head(y) \notin DOMAIN diff THEN FALSE
  ELSE LET d == diff[Head(y)] - 1
       IN IF d = 0
          THEN CountDown([e \in DOMAIN diff \ {Head(y)} |-> diff[e]], Tail(y))
          ELSE CountDown([diff EXCEPT ![Head(y)] = d], Tail(y))

\* compareStringSlice, had it compared the sets of the elements
compareStringSlice_AsSets(x, y) ==
  IF Len(x) # Len(y) THEN FALSE
  ELSE SeqToSet(x) = SeqToSet(y)

compareStringSlice(x, y) ==
  IF Len(x) # Len(y) THEN FALSE
  ELSE CountDown(CountUp([e \in {} |-> 0], x), y)

----------------------------------------------------------------------------
(* The firewall rules of a public IP.  A firewall rule is the record       *)
(* [Ipaddressid, Protocol, Startport, Endport, Cidrlist]; Cidrlist is the  *)
(* list that strings.Split(rule.Cidrlist, ",") yields.  The rule's Id is   *)
(* the record itself.                                                      *)

FirewallRule(ipid, proto, port, cidrs) ==
  [Ipaddressid |-> ipid, Protocol |-> proto, Startport |-> port, Endport |-> port,
   Cidrlist |-> cidrs]

RECURSIVE InOrder(_, _)
\* rank: the order in which rules that differ in their CIDR list are enumerated
\* (the iteration order of a Go map, the order of a list response)
InOrder(rules, rank) ==
  IF rank = <<>> THEN <<>>
  ELSE LET here == {r \in rules : r.Cidrlist = Head(rank)}
       IN (IF here = {} THEN <<>> ELSE <<CHOOSE r \in here : TRUE>>)
          \o InOrder(rules \ here, Tail(rank))

CsListFirewallRules(c, by, ipid) ==
  Issue(c, Entry("ListFirewallRules", by, <<>>, ipid, "", 0, <<>>,
                 ~Fails(c, "ListFirewallRules")))

CsDeleteFirewallRule(c, by, rule) ==
  LET ok == ~Fails(c, "DeleteFirewallRule")
      c1 == Issue(c, Entry("DeleteFirewallRule", by, <<>>, rule.Ipaddressid,
                           rule.Protocol, rule.Startport, rule.Cidrlist, ok))
  IN IF ok THEN [c1 EXCEPT !.fw = @ \ {rule}] ELSE c1

CsCreateFirewallRule(c, by, ipid, proto, port, cidrs) ==
  LET ok == ~Fails(c, "CreateFirewallRule")
      c1 == Issue(c, Entry("CreateFirewallRule", by, <<>>, ipid, proto, port, cidrs, ok))
  IN IF ok THEN [c1 EXCEPT !.fw = @ \cup {FirewallRule(ipid, proto, port, cidrs)}] ELSE c1

\* the loop "for rule := range filtered { DeleteFirewallRule }": err is the
\* result of the last delete
RECURSIVE DeleteFirewallRules(_, _, _, _)
DeleteFirewallRules(c, by, rules, err) ==
  IF rules = <<>> THEN [c EXCEPT !.err = err]
  ELSE LET c1 == CsDeleteFirewallRule(c, by, Head(rules))
       IN DeleteFirewallRules(c1, by, Tail(rules), ~c1.ok)

\* the rules of the IP with matching proto+port
FilteredRules(c, publicIpId, publicPort, protocol) ==
  {r \in c.fw : /\ r.Ipaddressid = publicIpId
                /\ r.Protocol = IPProtocol(protocol)
                /\ r.Startport = publicPort
                /\ r.Endport = publicPort}

\* updateFirewallRule, had it left the rules with another CIDR list in place
updateFirewallRule_KeepsOthers(c, publicIpId, publicPort, protocol, allowedIPsArg) ==
  LET by == "updateFirewallRule"
      allowedIPs == IF Len(allowedIPsArg) = 0 THEN <<defaultAllowedCIDR>> ELSE allowedIPsArg
      c1 == CsListFirewallRules(c, by, publicIpId)
      filtered == InOrder(FilteredRules(c1, publicIpId, publicPort, protocol), c.rank)
      matching == SelectSeq(filtered, LAMBDA r : compareStringSlice(r.Cidrlist, allowedIPs))
      hasMatch == matching # <<>>
      c3 == CsCreateFirewallRule(c1, by, publicIpId, IPProtocol(protocol), publicPort,
                                 allowedIPs)
  IN IF ~c1.ok THEN [c1 EXCEPT !.err = TRUE, !.ret = FALSE]
     ELSE IF hasMatch THEN [c1 EXCEPT !.err = FALSE, !.ret = TRUE]
     ELSE IF ~c3.ok THEN [c3 EXCEPT !.err = TRUE, !.ret = FALSE]
     ELSE [c3 EXCEPT !.err = FALSE, !.ret = TRUE]

\* updateFirewallRule, had it created the new rule before deleting the others
updateFirewallRule_CreateFirst(c, publicIpId, publicPort, protocol, allowedIPsArg) ==
  LET by == "updateFirewallRule"
      allowedIPs == IF Len(allowedIPsArg) = 0 THEN <<defaultAllowedCIDR>> ELSE allowedIPsArg
      c1 == CsListFirewallRules(c, by, publicIpId)
      filtered == InOrder(FilteredRules(c1, publicIpId, publicPort, protocol), c.rank)
      matching == SelectSeq(filtered, LAMBDA r : compareStringSlice(r.Cidrlist, allowedIPs))
      hasMatch == matching # <<>>
      others == IF hasMatch
                THEN SelectSeq(filtered, LAMBDA r : r # Head(matching))
                ELSE filtered
      c2 == IF hasMatch THEN c1
            ELSE CsCreateFirewallRule(c1, by, publicIpId, IPProtocol(protocol), publicPort,
                                      allowedIPs)
      c3 == DeleteFirewallRules(c2, by, others, FALSE)
  IN IF ~c1.ok THEN [c1 EXCEPT !.err = TRUE, !.ret = FALSE]
     ELSE IF ~hasMatch /\ ~c2.ok THEN [c2 EXCEPT !.err = TRUE, !.ret = FALSE]
     ELSE [c3 EXCEPT !.ret = TRUE]

\* updateFirewallRule, had it logged a failed create and gone on
updateFirewallRule_CreateErrorLogged(c, publicIpId, publicPort, protocol, allowedIPsArg) ==
  LET by == "updateFirewallRule"
      allowedIPs == IF Len(allowedIPsArg) = 0 THEN <<defaultAllowedCIDR>> ELSE allowedIPsArg
      c1 == CsListFirewallRules(c, by, publicIpId)
      filtered == InOrder(FilteredRules(c1, publicIpId, publicPort, protocol), c.rank)
      matching == SelectSeq(filtered, LAMBDA r : compareStringSlice(r.Cidrlist, allowedIPs))
      hasMatch == matching # <<>>
      others == IF hasMatch
                THEN SelectSeq(filtered, LAMBDA r : r # Head(matching))
                ELSE filtered
      c2 == DeleteFirewallRules(c1, by, others, FALSE)
      c3 == CsCreateFirewallRule(c2, by, publicIpId, IPProtocol(protocol), publicPort,
                                 allowedIPs)
  IN IF ~c1.ok THEN [c1 EXCEPT !.err = TRUE, !.ret = FALSE]
     ELSE IF hasMatch THEN [c2 EXCEPT !.ret = TRUE]
     ELSE [c3 EXCEPT !.err = FALSE, !.ret = TRUE]

\* updateFirewallRule, had it taken an empty list of allowed CIDRs as it is
updateFirewallRule_NoDefault(c, publicIpId, publicPort, protocol, allowedIPsArg) ==
  LET by == "updateFirewallRule"
      allowedIPs == allowedIPsArg
      c1 == CsListFirewallRules(c, by, publicIpId)
      filtered == InOrder(FilteredRules(c1, publicIpId, publicPort, protocol), c.rank)
      matching == SelectSeq(filtered, LAMBDA r : compareStringSlice(r.Cidrlist, allowedIPs))
      hasMatch == matching # <<>>
      others == IF hasMatch
                THEN SelectSeq(filtered, LAMBDA r : r # Head(matching))
                ELSE filtered
      c2 == DeleteFirewallRules(c1, by, others, FALSE)
      c3 == CsCreateFirewallRule(c2, by, publicIpId, IPProtocol(protocol), publicPort,
                                 allowedIPs)
  IN IF ~c1.ok THEN [c1 EXCEPT !.err = TRUE, !.ret = FALSE]
     ELSE IF hasMatch THEN [c2 EXCEPT !.ret = TRUE]
     ELSE IF ~c3.ok THEN [c3 EXCEPT !.err = TRUE, !.ret = FALSE]
     ELSE [c3 EXCEPT !.err = FALSE, !.ret = TRUE]

\* updateFirewallRule: c.err is whether it returns an error, c.ret its bool
updateFirewallRule(c, publicIpId, publicPort, protocol, allowedIPsArg) ==
  LET by == "updateFirewallRule"
      allowedIPs == IF Len(allowedIPsArg) = 0 THEN <<defaultAllowedCIDR>> ELSE allowedIPsArg
      c1 == CsListFirewallRules(c, by, publicIpId)
      filtered == InOrder(FilteredRules(c1, publicIpId, publicPort, protocol), c.rank)
      matching == SelectSeq(filtered, LAMBDA r : compareStringSlice(r.Cidrlist, allowedIPs))
      hasMatch == matching # <<>>
      others == IF hasMatch
                THEN SelectSeq(filtered, LAMBDA r : r # Head(matching))
                ELSE filtered
      c2 == DeleteFirewallRules(c1, by, others, FALSE)
      c3 == CsCreateFirewallRule(c2, by, publicIpId, IPProtocol(protocol), publicPort,
                                 allowedIPs)
  IN IF ~c1.ok THEN [c1 EXCEPT !.err = TRUE, !.ret = FALSE]
     ELSE IF hasMatch THEN [c2 EXCEPT !.ret = TRUE]
     ELSE IF ~c3.ok THEN [c3 EXCEPT !.err = TRUE, !.ret = FALSE]
     ELSE [c3 EXCEPT !.err = FALSE, !.ret = TRUE]

\* the loop of deleteFirewallRule: err is the result of the last delete,
\* deleted whether some delete succeeded
RECURSIVE DeleteFiltered(_, _, _, _, _)
DeleteFiltered(c, by, rules, err, deleted) ==
  IF rules = <<>> THEN [c EXCEPT !.err = err, !.ret = deleted]
  ELSE LET c1 == CsDeleteFirewallRule(c, by, Head(rules))
       IN DeleteFiltered(c1, by, Tail(rules), ~c1.ok, deleted \/ c1.ok)

\* deleteFirewallRule, had its filter left out the port
deleteFirewallRule_AnyPort(c, publicIpId, publicPort, protocol) ==
  LET by == "deleteFirewallRule"
      c1 == CsListFirewallRules(c, by, publicIpId)
      filtered == InOrder({r \in c1.fw : /\ r.Ipaddressid = publicIpId
                                         /\ r.Protocol = IPProtocol(protocol)}, c.rank)
  IN IF ~c1.ok THEN [c1 EXCEPT !.err = TRUE, !.ret = FALSE]
     ELSE DeleteFiltered(c1, by, filtered, FALSE, FALSE)

deleteFirewallRule(c, publicIpId, publicPort, protocol) ==
  LET by == "deleteFirewallRule"
      c1 == CsListFirewallRules(c, by, publicIpId)
      filtered == InOrder(FilteredRules(c1, publicIpId, publicPort, protocol), c.rank)
  IN IF ~c1.ok THEN [c1 EXCEPT !.err = TRUE, !.ret = FALSE]
     ELSE DeleteFiltered(c1, by, filtered, FALSE, FALSE)

----------------------------------------------------------------------------
(* The LB rules.  A rule is the record [Name, Algorithm, Protocol,         *)
(* Publicip, Publicipid, Publicport, Privateport, Cidrlist, Networkid,     *)
(* Instances]; ports are the decimal strings CloudStack returns.  The      *)
(* rule's Id is its Name, which is unique among the rules of the service.  *)

\* the empty map
\* a v1.LoadBalancerStatus with one ingress point; NoStatus is the nil status
Ingress(ip, hostname) ==
  [IP |-> ip, Hostname |-> hostname]

NoStatus ==
  Ingress("", "")

EmptyMap == [k \in {} |-> k]

MapRemove(m, k) ==
  [e \in DOMAIN m \ {k} |-> m[e]]

MapPut(m, k, v) ==
  [e \in DOMAIN m \cup {k} |-> IF e = k THEN v ELSE m[e]]

\* cloudprovider.DefaultLoadBalancerName(service)
GetLoadBalancerName(svc) ==
  svc.Name

\* fmt.Sprintf("%s-%s-%d", lb.name, protocol, port.Port)
RuleName(lbName, protocol, port) ==
  [base |-> lbName, proto |-> CSProtocol(protocol), port |-> port]

\* the loop over the listed rules in getLoadBalancer: the IP of the rule seen last
RECURSIVE LastSeenIp(_, _, _)
LastSeenIp(listed, rules, ip) ==
  IF listed = <<>> THEN ip
  ELSE LastSeenIp(Tail(listed), rules,
                  [ipAddr |-> rules[Head(listed)].Publicip,
                   ipAddrID |-> rules[Head(listed)].Publicipid])

\* strings.Contains on the Service names in use: CloudStack lists the rules
\* whose name contains the keyword
Contains(s, substr) ==
  s = substr \/ <<s, substr>> \in {<<"my-svc-ports", "svc-ports">>}

\* p.SetKeyword(lb.name): the names of the rules of cloud that the list returns
KeywordMatches(cloud, keyword) ==
  {n \in DOMAIN cloud : Contains(n.base, keyword)}

getLoadBalancer(c, svc) ==
  LET ok == ~Fails(c, "ListLoadBalancerRules")
      c1 == Issue(c, Entry("ListLoadBalancerRules", "getLoadBalancer", <<>>, "", "", 0,
                           <<>>, ok))
      listed == KeywordMatches(c.lb, GetLoadBalancerName(svc))
      ip == LastSeenIp(SelectSeqBy(c.listOrd, listed), c.lb,
                       [ipAddr |-> "", ipAddrID |-> ""])
  IN IF ~ok THEN [c1 EXCEPT !.err = TRUE]
     ELSE [c1 EXCEPT !.err = FALSE, !.name = GetLoadBalancerName(svc),
                     !.rules = [n \in listed |-> c.lb[n]],
                     !.ipAddr = ip.ipAddr, !.ipAddrID = ip.ipAddrID]

\* the loop over the listed virtual machines in verifyHosts
RECURSIVE MatchHosts(_, _, _, _)
MatchHosts(vms, hostNames, hostIDs, networkID) ==
  IF vms = <<>> THEN [err |-> FALSE, hostIDs |-> hostIDs, networkID |-> networkID]
  ELSE IF ToLower(Head(vms).Name) \in hostNames
  THEN IF networkID # "" /\ networkID # Head(vms).Networkid
       THEN [err |-> TRUE, hostIDs |-> <<>>, networkID |-> ""]
       ELSE MatchHosts(Tail(vms), hostNames, Append(hostIDs, Head(vms).Id),
                       Head(vms).Networkid)
  ELSE MatchHosts(Tail(vms), hostNames, hostIDs, networkID)

verifyHosts(c, nodeNames) ==
  LET ok == ~Fails(c, "ListVirtualMachines")
      c1 == Issue(c, Entry("ListVirtualMachines", "verifyHosts", <<>>, "", "", 0, <<>>, ok))
      r == MatchHosts(c.vms, {ToLower(n) : n \in nodeNames}, <<>>, "")
  IN IF ~ok THEN [c1 EXCEPT !.err = TRUE]
     ELSE [c1 EXCEPT !.err = r.err, !.hostIDs = r.hostIDs, !.networkID = r.networkID]

hasLoadBalancerIP(c) ==
  c.ipAddr # "" /\ c.ipAddrID # ""

\* ListPublicIpAddresses lists the allocated addresses that have the given address
getPublicIPAddress(c, loadBalancerIP) ==
  LET ok == ~Fails(c, "ListPublicIpAddresses")
      c1 == Issue(c, Entry("ListPublicIpAddresses", "getPublicIPAddress", <<>>, "", "", 0,
                           <<>>, ok))
      found == {ip \in PublicIps : ip.Ipaddress = loadBalancerIP /\ ip.Id \in c.al}
  IN IF ~ok THEN [c1 EXCEPT !.err = TRUE]
     ELSE IF Cardinality(found) # 1 THEN [c1 EXCEPT !.err = TRUE]
     ELSE LET ip == CHOOSE ip \in found : TRUE
          IN [c1 EXCEPT !.err = FALSE, !.ipAddr = ip.Ipaddress, !.ipAddrID = ip.Id]

\* AssociateIpAddress hands out a free address of the zone (c.pick when it is
\* free) and fails when there is none; GetNetworkByID fails for an unknown network
associatePublicIPAddress(c) ==
  LET okNet == ~Fails(c, "GetNetworkByID") /\ c.networkID # ""
      c1 == Issue(c, Entry("GetNetworkByID", "associatePublicIPAddress", <<>>, "", "", 0,
                           <<>>, okNet))
      free == IpIds \ c.al
      id == IF c.pick \in free THEN c.pick ELSE CHOOSE i \in free : TRUE
      ok == ~Fails(c1, "AssociateIpAddress") /\ free # {}
      c2 == Issue(c1, Entry("AssociateIpAddress", "associatePublicIPAddress", <<>>,
                            IF ok THEN id ELSE "", "", 0, <<>>, ok))
  IN IF ~okNet THEN [c1 EXCEPT !.err = TRUE]
     ELSE IF ~ok THEN [c2 EXCEPT !.err = TRUE]
     ELSE [c2 EXCEPT !.err = FALSE, !.al = @ \cup {id}, !.bc = @ \cup {id},
                     !.ipAddr = AddrOfId(id), !.ipAddrID = id]

getLoadBalancerIP(c, loadBalancerIP) ==
  IF loadBalancerIP # "" THEN getPublicIPAddress(c, loadBalancerIP)
  ELSE associatePublicIPAddress(c)

releaseLoadBalancerIP(c) ==
  LET ok == ~Fails(c, "DisassociateIpAddress")
      c1 == Issue(c, Entry("DisassociateIpAddress", "releaseLoadBalancerIP", <<>>,
                           c.ipAddrID, "", 0, <<>>, ok))
  IN IF ~ok THEN [c1 EXCEPT !.err = TRUE]
     ELSE [c1 EXCEPT !.err = FALSE, !.al = @ \ {c.ipAddrID}, !.bc = @ \ {c.ipAddrID}]

deleteLoadBalancerRule(c, lbRule) ==
  LET ok == ~Fails(c, "DeleteLoadBalancerRule")
      c1 == Issue(c, Entry("DeleteLoadBalancerRule", "deleteLoadBalancerRule", lbRule.Name,
                           lbRule.Publicipid, lbRule.Protocol, 0, <<>>, ok))
  IN IF ~ok THEN [c1 EXCEPT !.err = TRUE]
     ELSE [c1 EXCEPT !.err = FALSE, !.lb = MapRemove(@, lbRule.Name),
                     !.rules = MapRemove(@, lbRule.Name)]

\* c.rule is the rule returned (<<>> for nil), c.needsUpdate the bool
\* checkLoadBalancerRule, had it updated a rule with other ports in place
checkLoadBalancerRule_InPlace(c, lbRuleName, port, protocol) ==
  IF lbRuleName \notin DOMAIN c.rules
  THEN [c EXCEPT !.rule = <<>>, !.needsUpdate = FALSE, !.err = FALSE]
  ELSE LET lbRule == c.rules[lbRuleName]
       IN [c EXCEPT !.rule = <<lbRule>>,
                    !.needsUpdate = \/ lbRule.Privateport # Itoa(port.NodePort)
                                    \/ lbRule.Algorithm # c.algorithm
                                    \/ lbRule.Protocol # CSProtocol(protocol),
                    !.err = FALSE]

checkLoadBalancerRule(c, lbRuleName, port, protocol) ==
  IF lbRuleName \notin DOMAIN c.rules
  THEN [c EXCEPT !.rule = <<>>, !.needsUpdate = FALSE, !.err = FALSE]
  ELSE LET lbRule == c.rules[lbRuleName]
       IN IF /\ lbRule.Publicip = c.ipAddr
             /\ lbRule.Privateport = Itoa(port.NodePort)
             /\ lbRule.Publicport = Itoa(port.Port)
          THEN LET updateAlgo == lbRule.Algorithm # c.algorithm
                   updateProto == lbRule.Protocol # CSProtocol(protocol)
               IN [c EXCEPT !.rule = <<lbRule>>, !.needsUpdate = updateAlgo \/ updateProto,
                            !.err = FALSE]
          ELSE LET c1 == deleteLoadBalancerRule(c, lbRule)
               IN [c1 EXCEPT !.rule = <<>>, !.needsUpdate = FALSE]

updateLoadBalancerRule(c, lbRuleName, protocol) ==
  LET lbRule == c.rules[lbRuleName]
      ok == ~Fails(c, "UpdateLoadBalancerRule")
      c1 == Issue(c, Entry("UpdateLoadBalancerRule", "updateLoadBalancerRule", lbRule.Name,
                           lbRule.Publicipid, CSProtocol(protocol), 0, <<>>, ok))
  IN IF ~ok THEN [c1 EXCEPT !.err = TRUE]
     ELSE [c1 EXCEPT !.err = FALSE,
                     !.lb = IF lbRule.Name \in DOMAIN @
                            THEN [@ EXCEPT ![lbRule.Name].Algorithm = c.algorithm,
                                           ![lbRule.Name].Protocol = CSProtocol(protocol)]
                            ELSE @]

\* the rule CloudStack creates: no CIDR list is passed, the rule has no instance yet
createLoadBalancerRule(c, lbRuleName, port, protocol) ==
  LET ok == ~Fails(c, "CreateLoadBalancerRule")
      c1 == Issue(c, Entry("CreateLoadBalancerRule", "createLoadBalancerRule", lbRuleName,
                           c.ipAddrID, CSProtocol(protocol), port.Port, <<>>, ok))
      r == [Name |-> lbRuleName, Algorithm |-> c.algorithm,
            Protocol |-> CSProtocol(protocol),
            Publicip |-> AddrOfId(c.ipAddrID), Publicipid |-> c.ipAddrID,
            Publicport |-> Itoa(port.Port), Privateport |-> Itoa(port.NodePort),
            Cidrlist |-> <<>>, Networkid |-> c.networkID, Instances |-> {}]
  IN IF ~ok THEN [c1 EXCEPT !.err = TRUE, !.rule = <<>>]
     ELSE [c1 EXCEPT !.err = FALSE, !.rule = <<r>>, !.lb = MapPut(@, lbRuleName, r)]

assignHostsToRule(c, lbRule, hostIDs) ==
  LET ok == ~Fails(c, "AssignToLoadBalancerRule")
      c1 == Issue(c, Entry("AssignToLoadBalancerRule", "assignHostsToRule", lbRule.Name,
                           lbRule.Publicipid, "", 0, hostIDs, ok))
  IN IF ~ok THEN [c1 EXCEPT !.err = TRUE]
     ELSE [c1 EXCEPT !.err = FALSE,
                     !.lb = IF lbRule.Name \in DOMAIN @
                            THEN [@ EXCEPT ![lbRule.Name].Instances = @ \cup SeqToSet(hostIDs)]
                            ELSE @]

removeHostsFromRule(c, lbRule, hostIDs) ==
  LET ok == ~Fails(c, "RemoveFromLoadBalancerRule")
      c1 == Issue(c, Entry("RemoveFromLoadBalancerRule", "removeHostsFromRule", lbRule.Name,
                           lbRule.Publicipid, "", 0, hostIDs, ok))
  IN IF ~ok THEN [c1 EXCEPT !.err = TRUE]
     ELSE [c1 EXCEPT !.err = FALSE,
                     !.lb = IF lbRule.Name \in DOMAIN @
                            THEN [@ EXCEPT ![lbRule.Name].Instances = @ \ SeqToSet(hostIDs)]
                            ELSE @]

----------------------------------------------------------------------------
(* symmetricDifference(hostIDs, lbInstances): lbInstances is the list of   *)
(* the instances' IDs; mapOrder is the order in which the map new is       *)
(* ranged over when assign is built                                        *)

RECURSIVE RangeInstances(_, _, _)
\* the loop over lbInstances: the map new and the slice remove after it
RangeInstances(new, lbInstances, remove) ==
  IF lbInstances = <<>> THEN [new |-> new, remove |-> remove]
  ELSE IF Head(lbInstances) \in new
  THEN RangeInstances(new \ {Head(lbInstances)}, Tail(lbInstances), remove)
  ELSE RangeInstances(new, Tail(lbInstances), Append(remove, Head(lbInstances)))

symmetricDifference(hostIDs, lbInstances, mapOrder) ==
  LET r == RangeInstances(SeqToSet(hostIDs), lbInstances, <<>>)
  IN [assign |-> SelectSeqBy(mapOrder, r.new), remove |-> r.remove]

----------------------------------------------------------------------------
(* EnsureLoadBalancer *)

\* "if err != nil { return err }": the rest of the handler runs on the context
\* of a step that returned no error
Then(c, Rest(_)) ==
  IF c.err THEN c ELSE Rest(c)

\* KeepRule, had it left the rule in lb.rules
KeepRule_StaysInMap(c, lbRuleName, protocol) ==
  LET lbRule == c.rule
      kept(cx) == [cx EXCEPT !.rule = lbRule]
  IN IF c.needsUpdate
     THEN Then(updateLoadBalancerRule(c, lbRuleName, protocol), kept)
     ELSE kept(c)

\* the rule exists: it is updated if need be and taken out of lb.rules
KeepRule(c, lbRuleName, protocol) ==
  LET lbRule == c.rule
      kept(cx) == [cx EXCEPT !.rules = MapRemove(@, lbRuleName), !.rule = lbRule]
  IN IF c.needsUpdate
     THEN Then(updateLoadBalancerRule(c, lbRuleName, protocol), kept)
     ELSE kept(c)

\* the rule has to be created, and the hosts assigned to it
NewRule(c, lbRuleName, port, protocol) ==
  Then(createLoadBalancerRule(c, lbRuleName, port, protocol),
       LAMBDA cc : assignHostsToRule(cc, Head(cc.rule), cc.hostIDs))

\* the body of the loop over service.Spec.Ports, for one port
EnsurePort(c, svc, port) ==
  LET protocol == ProtocolFromServicePort(port, svc.Annotations)
      lbRuleName == RuleName(c.name, protocol, port.Port)
  IN IF protocol = LoadBalancerProtocolInvalid THEN [c EXCEPT !.err = TRUE]
     ELSE Then(checkLoadBalancerRule(c, lbRuleName, port, protocol),
            LAMBDA c1 :
              Then(IF c1.rule # <<>> THEN KeepRule(c1, lbRuleName, protocol)
                   ELSE NewRule(c1, lbRuleName, port, protocol),
                LAMBDA c2 :
                  updateFirewallRule(c2, Head(c2.rule).Publicipid, port.Port, protocol,
                                     svc.LoadBalancerSourceRanges)))

RECURSIVE EnsurePorts(_, _, _)
EnsurePorts(c, svc, ports) ==
  IF ports = <<>> THEN c
  ELSE Then(EnsurePort(c, svc, Head(ports)),
            LAMBDA c1 : EnsurePorts(c1, svc, Tail(ports)))

\* the body of the cleanup loop over lb.rules, for one rule
CleanupRule(c, lbRule) ==
  LET protocol == ProtocolFromLoadBalancer(lbRule.Protocol)
      port == ParseInt(lbRule.Publicport)
  IN IF protocol = LoadBalancerProtocolInvalid THEN [c EXCEPT !.err = TRUE]
     ELSE IF ParseIntErr(lbRule.Publicport) THEN [c EXCEPT !.err = TRUE]
     ELSE Then(deleteFirewallRule(c, lbRule.Publicipid, port, protocol),
               LAMBDA c1 : deleteLoadBalancerRule(c1, lbRule))

RECURSIVE Cleanup(_, _)
\* names: the rule names in the order the map lb.rules is ranged over
Cleanup(c, names) ==
  IF names = <<>> THEN c
  ELSE IF Head(names) \notin DOMAIN c.rules THEN Cleanup(c, Tail(names))
  ELSE Then(CleanupRule(c, c.rules[Head(names)]),
            LAMBDA c1 : Cleanup(c1, Tail(names)))

\* the deferred function, had it released nothing
Deferred_NoRelease(c) ==
  c

\* the deferred function: release the IP when the handler returns an error
Deferred(c) ==
  IF c.release /\ c.err
  THEN [releaseLoadBalancerIP(c) EXCEPT !.err = TRUE]
  ELSE c

\* "if !lb.hasLoadBalancerIP() { ... }": the IP is retrieved or associated, and
\* its release is deferred when it is not the IP the Service names
AcquireIP(c, svc) ==
  IF hasLoadBalancerIP(c) THEN c
  ELSE Then(getLoadBalancerIP(c, svc.LoadBalancerIP),
            LAMBDA c1 : [c1 EXCEPT !.release = c1.ipAddr # ""
                                               /\ c1.ipAddr # svc.LoadBalancerIP])

\* the loop over the ports and the cleanup loop, with the deferred function
\* run when they return
PortsAndCleanup(c, svc) ==
  Deferred(Then(EnsurePorts(c, svc, svc.Ports),
                LAMBDA c1 : Cleanup(c1, SelectSeqBy(c1.mapOrd, DOMAIN c1.rules))))

EnsureLoadBalancer_PortsCheckedLate(c, svc, nodeNames) ==
  Then(getLoadBalancer(c, svc),
       LAMBDA c1 :
         Then(verifyHosts([c1 EXCEPT !.algorithm = "roundrobin"], nodeNames),
              LAMBDA c2 :
                IF Len(svc.Ports) = 0 THEN [c2 EXCEPT !.err = TRUE]
                ELSE Then(AcquireIP(c2, svc),
                          LAMBDA c3 :
                            Then(PortsAndCleanup(c3, svc),
                                 LAMBDA c4 : [c4 EXCEPT !.status = Ingress(c4.ipAddr, "")]))))

EnsureLoadBalancer(c, svc, nodeNames) ==
  LET algorithm == CASE svc.SessionAffinity = "None" -> "roundrobin"
                     [] svc.SessionAffinity = "ClientIP" -> "source"
                     [] OTHER -> ""
  IN IF Len(svc.Ports) = 0 THEN [c EXCEPT !.err = TRUE]
     ELSE Then(getLoadBalancer(c, svc),
            LAMBDA c1 :
              IF algorithm = "" THEN [c1 EXCEPT !.err = TRUE]
              ELSE Then(verifyHosts([c1 EXCEPT !.algorithm = algorithm], nodeNames),
                     LAMBDA c2 :
                       Then(AcquireIP(c2, svc),
                            LAMBDA c3 :
                              Then(PortsAndCleanup(c3, svc),
                                   LAMBDA c4 : [c4 EXCEPT !.status = Ingress(c4.ipAddr, "")]))))

----------------------------------------------------------------------------
(* UpdateLoadBalancer *)

\* the body of the loop over lb.rules, for one rule
UpdateRule_AssignOnly(c, lbRule) ==
  LET ok == ~Fails(c, "ListLoadBalancerRuleInstances")
      c1 == Issue(c, Entry("ListLoadBalancerRuleInstances", "UpdateLoadBalancer",
                           lbRule.Name, lbRule.Publicipid, "", 0, <<>>, ok))
      instances == IF lbRule.Name \in DOMAIN c.lb
                   THEN SelectSeqBy(c.hostOrd, c.lb[lbRule.Name].Instances)
                   ELSE <<>>
      d == symmetricDifference(c.hostIDs, instances, c.hostOrd)
  IN IF ~ok THEN [c1 EXCEPT !.err = TRUE]
     ELSE IF Len(d.assign) > 0 THEN assignHostsToRule(c1, lbRule, d.assign)
     ELSE [c1 EXCEPT !.err = FALSE]

UpdateRule(c, lbRule) ==
  LET ok == ~Fails(c, "ListLoadBalancerRuleInstances")
      c1 == Issue(c, Entry("ListLoadBalancerRuleInstances", "UpdateLoadBalancer",
                           lbRule.Name, lbRule.Publicipid, "", 0, <<>>, ok))
      instances == IF lbRule.Name \in DOMAIN c.lb
                   THEN SelectSeqBy(c.hostOrd, c.lb[lbRule.Name].Instances)
                   ELSE <<>>
      d == symmetricDifference(c.hostIDs, instances, c.hostOrd)
      c2 == IF Len(d.assign) > 0 THEN assignHostsToRule(c1, lbRule, d.assign)
            ELSE [c1 EXCEPT !.err = FALSE]
      c3 == IF Len(d.remove) > 0 THEN removeHostsFromRule(c2, lbRule, d.remove)
            ELSE c2
  IN IF ~ok THEN [c1 EXCEPT !.err = TRUE]
     ELSE IF c2.err THEN c2
     ELSE c3

RECURSIVE UpdateRules(_, _)
UpdateRules(c, names) ==
  IF names = <<>> THEN c
  ELSE Then(UpdateRule(c, c.rules[Head(names)]),
            LAMBDA c1 : UpdateRules(c1, Tail(names)))

UpdateLoadBalancer(c, svc, nodeNames) ==
  Then(getLoadBalancer(c, svc),
       LAMBDA c1 :
         Then(verifyHosts(c1, nodeNames),
              LAMBDA c2 : UpdateRules(c2, SelectSeqBy(c2.mapOrd, DOMAIN c2.rules))))

----------------------------------------------------------------------------
(* EnsureLoadBalancerDeleted *)

\* the body of the loop over lb.rules, for one rule; the result of
\* deleteFirewallRule is not looked at
DeleteRule(c, lbRule) ==
  LET protocol == ProtocolFromLoadBalancer(lbRule.Protocol)
      port == ParseInt(lbRule.Publicport)
      c1 == deleteFirewallRule(c, lbRule.Publicipid, port, protocol)
  IN IF protocol = LoadBalancerProtocolInvalid THEN [c EXCEPT !.err = FALSE]
     ELSE IF ParseIntErr(lbRule.Publicport) THEN deleteLoadBalancerRule(c, lbRule)
     ELSE deleteLoadBalancerRule(c1, lbRule)

RECURSIVE DeleteRules(_, _)
DeleteRules(c, names) ==
  IF names = <<>> THEN c
  ELSE IF Head(names) \notin DOMAIN c.rules THEN DeleteRules(c, Tail(names))
  ELSE LET c1 == DeleteRule(c, c.rules[Head(names)])
       IN IF c1.err THEN c1 ELSE DeleteRules(c1, Tail(names))

EnsureLoadBalancerDeleted_MissingIsError(c, svc) ==
  LET c1 == getLoadBalancer(c, svc)
      c2 == DeleteRules(c1, SelectSeqBy(c.mapOrd, DOMAIN c1.rules))
  IN IF c1.err THEN c1
     ELSE IF DOMAIN c1.rules = {} THEN [c1 EXCEPT !.err = TRUE]
     ELSE IF c2.err THEN c2
     ELSE IF c2.ipAddr # "" /\ c2.ipAddr # svc.LoadBalancerIP
     THEN releaseLoadBalancerIP(c2)
     ELSE c2

\* EnsureLoadBalancerDeleted, had it released whatever IP the rules were on
EnsureLoadBalancerDeleted_ReleasesAny(c, svc) ==
  LET c1 == getLoadBalancer(c, svc)
      c2 == DeleteRules(c1, SelectSeqBy(c.mapOrd, DOMAIN c1.rules))
  IN IF c1.err THEN c1
     ELSE IF c2.err THEN c2
     ELSE IF c2.ipAddr # ""
     THEN releaseLoadBalancerIP(c2)
     ELSE c2

EnsureLoadBalancerDeleted(c, svc) ==
  LET c1 == getLoadBalancer(c, svc)
      c2 == DeleteRules(c1, SelectSeqBy(c.mapOrd, DOMAIN c1.rules))
  IN IF c1.err THEN c1
     ELSE IF c2.err THEN c2
     ELSE IF c2.ipAddr # "" /\ c2.ipAddr # svc.LoadBalancerIP
     THEN releaseLoadBalancerIP(c2)
     ELSE c2

----------------------------------------------------------------------------
(* The Services and node sets the handlers are called with *)

ServicePort(protocol, port, nodePort) ==
  [Protocol |-> protocol, Port |-> port, NodePort |-> nodePort]

\* the ports a Service is built from, in the order they appear in a Service
PortChoices ==
  << ServicePort("TCP", 80, 30080),
     ServicePort("TCP", 80, 30081),
     ServicePort("TCP", 443, 30080),
     ServicePort("SCTP", 443, 30443) >>

\* Kubernetes admits no two ports with the same protocol and port, or the same node port
PortLists ==
  {SelectSeqBy(PortChoices, S) :
     S \in {T \in SUBSET SeqToSet(PortChoices) :
              /\ Cardinality(T) \in 1..MaxPorts
              /\ \A p, q \in T :
                   p # q => /\ <<p.Protocol, p.Port>> # <<q.Protocol, q.Port>>
                            /\ p.NodePort # q.NodePort}}

SourceRangeChoices ==
  { <<>>, <<"10.0.0.0/8">>, <<"192.168.0.0/16">> }

\* the Service with one TCP port and nothing else set
PlainService(name) ==
  [ Name |-> name,
    Ports |-> <<PortChoices[1]>>,
    LoadBalancerIP |-> "",
    SessionAffinity |-> "None",
    LoadBalancerSourceRanges |-> <<>>,
    Annotations |-> EmptyMap ]

\* the Services the handlers are called with.  A Service keeps its name when it
\* is edited; each of these is edited in one respect: its ports, its proxy
\* annotation, its requested IP, an unsupported port, its source ranges, its
\* session affinity
Services ==
  {[PlainService("svc-ports") EXCEPT !.Ports = pl] :
     pl \in {pl \in PortLists : \A i \in 1..Len(pl) : pl[i].Protocol = "TCP"}}
  \cup {[PlainService("svc-proxy") EXCEPT !.Annotations = an] :
          an \in {EmptyMap} \cup {MapPut(EmptyMap, ServiceAnnotationLoadBalancerProxyProtocol, v) :
                                    v \in {"true", "false"}}}
  \cup {[PlainService("svc-ip") EXCEPT !.LoadBalancerIP = ip] :
          ip \in {""} \cup {i.Ipaddress : i \in PublicIps}}
  \cup {[PlainService("svc-sctp") EXCEPT !.Ports = pl] :
          pl \in {pl \in PortLists : Head(pl) = PortChoices[1] /\ pl[Len(pl)].Protocol # "TCP"}
                   \cup {<<PortChoices[1]>>}}
  \cup {[PlainService("svc-cidr") EXCEPT !.LoadBalancerSourceRanges = sr] :
          sr \in SourceRangeChoices}
  \cup {[PlainService("svc-affinity") EXCEPT !.SessionAffinity = sa] :
          sa \in {"None", "ClientIP"}}

\* the names of the nodes of the cluster
AllNodes ==
  {"node1", "NODE2"}

NodeSets ==
  { {"node1"}, AllNodes }

----------------------------------------------------------------------------
(* One run of a handler *)

Snapshot ==
  [lb |-> lbRules, fw |-> fwRules, al |-> allocated, bc |-> byController]

NoSnapshot ==
  [lb |-> EmptyMap, fw |-> {}, al |-> {}, bc |-> {}]

Idle ==
  [op |-> "none", err |-> FALSE, log |-> <<>>, again |-> FALSE, pre |-> NoSnapshot,
   status |-> NoStatus, exists |-> FALSE]

NoProbe ==
  [fn |-> "none"]

\* the CIDR lists of the firewall rules a run of a handler on svc can see
CidrListsSeen(svc) ==
  {r.Cidrlist : r \in fwRules}
    \cup {IF Len(svc.LoadBalancerSourceRanges) = 0 THEN <<defaultAllowedCIDR>>
          ELSE svc.LoadBalancerSourceRanges}

HostIds ==
  {VirtualMachines[i].Id : i \in 1..Len(VirtualMachines)}

\* the IDs a run can meet: those of the listed VMs and those assigned to rules
ListedHostIds ==
  {ListedVirtualMachines[i].Id : i \in 1..Len(ListedVirtualMachines)}
    \cup UNION {lbRules[n].Instances : n \in DOMAIN lbRules}

\* the context of a run: the state of CloudStack, the failure plan and the
\* enumeration orders of the run, the fields of the loadBalancer struct
NewRun(F, rank, listOrd, mapOrd, hostOrd, pick) ==
  [lb |-> lbRules, fw |-> fwRules, al |-> allocated, bc |-> byController,
   log |-> <<>>, ok |-> TRUE, err |-> FALSE, ret |-> FALSE,
   F |-> F, rank |-> rank, listOrd |-> listOrd, mapOrd |-> mapOrd, hostOrd |-> hostOrd,
   pick |-> pick,
   name |-> "", algorithm |-> "", hostIDs |-> <<>>, ipAddr |-> "", ipAddrID |-> "",
   networkID |-> "", rules |-> EmptyMap,
   rule |-> <<>>, needsUpdate |-> FALSE, release |-> FALSE,
   acl |-> {}, vms |-> ListedVirtualMachines, status |-> NoStatus, exists |-> FALSE]

Finish(op, c) ==
  /\ lbRules' = c.lb
  /\ fwRules' = c.fw
  /\ allocated' = c.al
  /\ byController' = c.bc
  /\ last' = [op |-> op, err |-> c.err, log |-> c.log, again |-> stable, pre |-> Snapshot,
              status |-> IF c.err THEN NoStatus ELSE c.status,
              exists |-> ~c.err /\ c.exists]
  /\ stable' = (op = "Ensure" /\ ~c.err)
  /\ UNCHANGED <<service, nodes, probe>>

\* the orders in which ListLoadBalancerRules can return the rules, one for each
\* rule that can come last (the loop in getLoadBalancer keeps what it saw last)
ListOrders ==
  IF DOMAIN lbRules = {} THEN {<<>>}
  ELSE {Append(CHOOSE p \in Perms(DOMAIN lbRules \ {n}) : TRUE, n) : n \in DOMAIN lbRules}

\* the free public IP that AssociateIpAddress would hand out
Picks ==
  IF IpIds \ allocated = {} THEN {""} ELSE IpIds \ allocated

\* the contexts a handler can return with: one for each failure plan of at
\* most MaxFailures failures, each at a call that the run reaches
Outcomes(Run(_)) ==
  LET plans[n \in 0..MaxFailures] ==
        IF n = 0 THEN {{}}
        ELSE plans[n - 1]
               \cup UNION {{P \cup {x} : x \in FailurePoints(Run(P).log)} : P \in plans[n - 1]}
  IN {Run(F) : F \in plans[MaxFailures]}

Ensure ==
  /\ last = Idle
  /\ \E rank \in Perms(CidrListsSeen(service)), listOrd \in ListOrders,
     mapOrd \in Perms(DOMAIN lbRules), pick \in Picks :
       \E c \in Outcomes(LAMBDA F :
                  EnsureLoadBalancer(NewRun(F, rank, listOrd, mapOrd, <<>>, pick),
                                     service, nodes)) :
         Finish("Ensure", c)

Update ==
  /\ last = Idle
  /\ \E listOrd \in ListOrders, mapOrd \in Perms(DOMAIN lbRules), hostOrd \in Perms(ListedHostIds) :
       \E c \in Outcomes(LAMBDA F :
                  UpdateLoadBalancer(NewRun(F, <<>>, listOrd, mapOrd, hostOrd, ""),
                                     service, nodes)) :
         Finish("Update", c)

Delete ==
  /\ last = Idle
  /\ \E rank \in Perms(CidrListsSeen(service)), listOrd \in ListOrders,
     mapOrd \in Perms(DOMAIN lbRules) :
       \E c \in Outcomes(LAMBDA F :
                  EnsureLoadBalancerDeleted(NewRun(F, rank, listOrd, mapOrd, <<>>, ""),
                                            service)) :
         Finish("Delete", c)

\* the service controller has taken the result of the call and waits for the next event
Return ==
  /\ last # Idle
  /\ last' = Idle
  /\ UNCHANGED <<service, nodes, lbRules, fwRules, allocated, byController, stable, probe>>

\* the Service is edited
ChangeService ==
  \E s \in Services :
    /\ last = Idle
    /\ s # service
    /\ s.Name = service.Name
    /\ service' = s
    /\ stable' = FALSE
    /\ UNCHANGED <<nodes, lbRules, fwRules, allocated, byController, last, probe>>

\* the nodes of the cluster change
ChangeNodes ==
  \E n \in NodeSets :
    /\ last = Idle
    /\ n # nodes
    /\ nodes' = n
    /\ stable' = FALSE
    /\ UNCHANGED <<service, lbRules, fwRules, allocated, byController, last, probe>>

Init ==
  /\ service \in Services
  /\ nodes \in NodeSets
  /\ lbRules = EmptyMap
  /\ fwRules = {}
  /\ allocated = {"ip-1"}
  /\ byController = {}
  /\ stable = FALSE
  /\ last = Idle
  /\ probe = NoProbe

Next ==
  \/ Ensure
  \/ Update
  \/ Delete
  \/ Return
  \/ ChangeService
  \/ ChangeNodes

Spec == Init /\ [][Next]_vars

----------------------------------------------------------------------------
(* checkLoadBalancerRule on its own *)

\* the management server versions the provider can have read at start-up
Versions ==
  { <<4, 9, 0>>, <<4, 21, 0>>, <<4, 22, 0>>, <<5, 0, 0>> }

\* the CIDR lists an LB rule found in CloudStack can carry
RuleCidrChoices ==
  { <<>>, <<defaultAllowedCIDR>>, <<"10.0.0.0/8">> }

\* the LB rule that Ensure creates for the first port of svc on the public IP
RuleFor(svc, ipid, cidrs) ==
  LET port == Head(svc.Ports)
      protocol == ProtocolFromServicePort(port, svc.Annotations)
  IN [Name |-> RuleName(GetLoadBalancerName(svc), protocol, port.Port),
      Algorithm |-> IF svc.SessionAffinity = "ClientIP" THEN "source" ELSE "roundrobin",
      Protocol |-> CSProtocol(protocol),
      Publicip |-> AddrOfId(ipid), Publicipid |-> ipid,
      Publicport |-> Itoa(port.Port), Privateport |-> Itoa(port.NodePort),
      Cidrlist |-> cidrs, Networkid |-> "net-1", Instances |-> {}]

\* CloudStack holds one LB rule, made for the Service as it was (s0); the
\* provider is about to check it for the first port of the Service as it is
InitCheck ==
  /\ service \in Services
  /\ nodes = AllNodes
  /\ \E s0 \in Services, cidrs \in RuleCidrChoices :
       /\ s0.Name = service.Name
       /\ Head(s0.Ports).Protocol = "TCP"
       /\ lbRules = MapPut(EmptyMap, RuleFor(s0, "ip-2", cidrs).Name, RuleFor(s0, "ip-2", cidrs))
  /\ fwRules = {}
  /\ allocated = IpIds
  /\ byController = {"ip-2"}
  /\ stable = FALSE
  /\ last = Idle
  /\ probe \in [fn : {"checkLoadBalancerRule"}, version : Versions,
                ipAddr : {i.Ipaddress : i \in PublicIps},
                rule : {<<>>}, needsUpdate : {FALSE}]

\* one call of checkLoadBalancerRule, as the loop over the ports makes it
CheckRule ==
  /\ last = Idle
  /\ probe.fn = "checkLoadBalancerRule"
  /\ \E F \in {{}, {<<"DeleteLoadBalancerRule", 1>>}} :
       LET port == Head(service.Ports)
           protocol == ProtocolFromServicePort(port, service.Annotations)
           c0 == [NewRun(F, <<>>, <<>>, <<>>, <<>>, "") EXCEPT
                    !.name = GetLoadBalancerName(service),
                    !.rules = lbRules,
                    !.ipAddr = probe.ipAddr,
                    !.algorithm = IF service.SessionAffinity = "ClientIP" THEN "source"
                                  ELSE "roundrobin"]
           c == checkLoadBalancerRule(c0, RuleName(c0.name, protocol, port.Port),
                                      port, protocol)
       IN /\ protocol # LoadBalancerProtocolInvalid
          /\ lbRules' = c.lb
          /\ last' = [op |-> "checkLoadBalancerRule", err |-> c.err, log |-> c.log,
                      again |-> FALSE, pre |-> Snapshot]
          /\ probe' = [probe EXCEPT !.rule = c.rule, !.needsUpdate = c.needsUpdate]
  /\ UNCHANGED <<service, nodes, fwRules, allocated, byController, stable>>

SpecCheck == InitCheck /\ [][CheckRule]_vars

----------------------------------------------------------------------------
(* symmetricDifference on its own *)

\* the host-ID lists and instance lists, repeated IDs included
IdLists ==
  SeqsUpTo(HostIds, MaxDiffLen)

InitDiff ==
  /\ service = PlainService("svc-ports")
  /\ nodes = AllNodes
  /\ lbRules = EmptyMap
  /\ fwRules = {}
  /\ allocated = {"ip-1"}
  /\ byController = {}
  /\ stable = FALSE
  /\ last = Idle
  /\ probe \in [fn : {"symmetricDifference"}, hostIDs : IdLists, lbInstances : IdLists,
                mapOrder : Perms(HostIds), done : {FALSE},
                assign : {<<>>}, remove : {<<>>}]

Diff ==
  /\ probe.fn = "symmetricDifference"
  /\ ~probe.done
  /\ LET r == symmetricDifference(probe.hostIDs, probe.lbInstances, probe.mapOrder)
     IN probe' = [probe EXCEPT !.done = TRUE, !.assign = r.assign, !.remove = r.remove]
  /\ UNCHANGED <<service, nodes, lbRules, fwRules, allocated, byController, stable, last>>

SpecDiff == InitDiff /\ [][Diff]_vars

----------------------------------------------------------------------------
(* ProtocolFromServicePort on its own *)

\* the values the proxy-protocol annotation is given, and "absent" for a
\* Service without the annotation
ProxyAnnotationValues ==
  { "absent", "true", "false", "", "TRUE", "1", "yes" }

AnnotationsWith(key, value) ==
  IF value = "absent" THEN EmptyMap ELSE MapPut(EmptyMap, key, value)

InitProto ==
  /\ service = PlainService("svc-proxy")
  /\ nodes = AllNodes
  /\ lbRules = EmptyMap
  /\ fwRules = {}
  /\ allocated = {"ip-1"}
  /\ byController = {}
  /\ stable = FALSE
  /\ last = Idle
  /\ probe \in [fn : {"ProtocolFromServicePort"},
                port : {ServicePort(pr, po, np) : pr \in {"TCP", "UDP", "SCTP", ""},
                                                  po \in {80, 443}, np \in {30080, 30081}},
                value : ProxyAnnotationValues,
                done : {FALSE}, protocol : {""}]

Proto ==
  /\ probe.fn = "ProtocolFromServicePort"
  /\ ~probe.done
  /\ probe' = [probe EXCEPT
                 !.done = TRUE,
                 !.protocol = ProtocolFromServicePort(
                                probe.port,
                                AnnotationsWith(ServiceAnnotationLoadBalancerProxyProtocol,
                                                probe.value))]
  /\ UNCHANGED <<service, nodes, lbRules, fwRules, allocated, byController, stable, last>>

SpecProto == InitProto /\ [][Proto]_vars

----------------------------------------------------------------------------
(* Ensure for Services that carry the source-CIDR annotation *)

ServiceAnnotationLoadBalancerSourceCidrs ==
  "service.beta.kubernetes.io/cloudstack-load-balancer-source-cidrs"

\* the values the source-CIDR annotation is given, and "absent"
SourceCidrValues ==
  { "absent", "10.0.0.0/8", "10.0.0.0/8, 192.168.0.0/16", "", "invalid-cidr" }

AnnotatedServices ==
  {[PlainService("svc-annot") EXCEPT
      !.LoadBalancerSourceRanges = sr,
      !.Annotations = AnnotationsWith(ServiceAnnotationLoadBalancerSourceCidrs, v)] :
     sr \in {<<>>, <<"192.168.0.0/16">>}, v \in SourceCidrValues}

InitCidr ==
  /\ service \in AnnotatedServices
  /\ nodes = AllNodes
  /\ lbRules = EmptyMap
  /\ fwRules = {}
  /\ allocated = {"ip-1"}
  /\ byController = {}
  /\ stable = FALSE
  /\ last = Idle
  /\ probe = NoProbe

NextCidr ==
  \/ Ensure
  \/ Return

SpecCidr == InitCidr /\ [][NextCidr]_vars

----------------------------------------------------------------------------
(* Ensure on networks with different capabilities *)

\* the service sets that GetNetworkByID can report for the network of the nodes
NetworkServiceSets ==
  { {"Firewall", "Lb"}, {"NetworkACL", "Lb"}, {"Lb"}, {"firewall", "Lb"} }

InitNet ==
  /\ service \in {s \in Services : s.Name = "svc-ports"}
  /\ nodes = AllNodes
  /\ lbRules = EmptyMap
  /\ fwRules = {}
  /\ allocated = {"ip-1"}
  /\ byController = {}
  /\ stable = FALSE
  /\ last = Idle
  /\ probe \in [fn : {"network"}, services : NetworkServiceSets]

NextNet ==
  \/ Ensure
  \/ Return
  \/ ChangeService

SpecNet == InitNet /\ [][NextNet]_vars

----------------------------------------------------------------------------
(* updateNetworkACL on its own *)

\* an entry of a network ACL list, as CreateNetworkACL makes it
NetworkACL(aclid, protocol, port, action, cidrs, networkid, traffictype) ==
  [Aclid |-> aclid, Protocol |-> protocol, Startport |-> Itoa(port), Endport |-> Itoa(port),
   Action |-> action, Cidrlist |-> cidrs, Networkid |-> networkid,
   Traffictype |-> traffictype]

\* the VPC network of the nodes and the ACL list it uses
VpcNetwork(aclName) ==
  [Id |-> "net-1", Aclid |-> "acl-1", AclName |-> aclName]

\* c.acl: the entries of the ACL list; c.err: whether an error is returned, c.ret: the bool
updateNetworkACL(c, publicPort, protocol, network) ==
  Then([Issue(c, Entry("GetNetworkByID", "updateNetworkACL", <<>>, "", "", 0, network.Id,
                       ~Fails(c, "GetNetworkByID")))
          EXCEPT !.err = Fails(c, "GetNetworkByID"), !.ret = FALSE],
       LAMBDA c1 :
         LET acl == NetworkACL(network.Aclid, CSProtocol(protocol), publicPort, "Allow",
                               <<"0.0.0.0/0">>, network.Id, "Ingress")
             ok == ~Fails(c1, "CreateNetworkACL")
         IN [Issue(c1, Entry("CreateNetworkACL", "updateNetworkACL", acl, "",
                             acl.Protocol, publicPort, acl.Cidrlist, ok))
               EXCEPT !.acl = IF ok THEN @ \cup {acl} ELSE @,
                      !.err = ~ok, !.ret = ok])

\* the entries an ACL list can hold before the call
AclChoices ==
  { NetworkACL("acl-1", "tcp", 80, "Allow", <<"0.0.0.0/0">>, "net-1", "Ingress"),
    NetworkACL("acl-1", "udp", 80, "Allow", <<"0.0.0.0/0">>, "net-1", "Ingress"),
    NetworkACL("acl-1", "tcp", 443, "Allow", <<"10.0.0.0/8">>, "net-1", "Ingress") }

AclListNames ==
  { "custom-acl", "default_allow", "default_deny" }

InitAcl ==
  /\ service = PlainService("svc-ports")
  /\ nodes = AllNodes
  /\ lbRules = EmptyMap
  /\ fwRules = {}
  /\ allocated = {"ip-1"}
  /\ byController = {}
  /\ stable = FALSE
  /\ last = Idle
  /\ probe \in [fn : {"updateNetworkACL"}, port : {80, 443},
                protocol : {LoadBalancerProtocolTCP, LoadBalancerProtocolUDP},
                aclName : AclListNames, before : SUBSET AclChoices,
                acl : {{}}, ret : {FALSE}]

UpdateACL ==
  /\ last = Idle
  /\ probe.fn = "updateNetworkACL"
  /\ \E F \in {{}, {<<"GetNetworkByID", 1>>}, {<<"CreateNetworkACL", 1>>}} :
       LET c == updateNetworkACL([NewRun(F, <<>>, <<>>, <<>>, <<>>, "")
                                    EXCEPT !.acl = probe.before],
                                 probe.port, probe.protocol, VpcNetwork(probe.aclName))
       IN /\ last' = [op |-> "updateNetworkACL", err |-> c.err, log |-> c.log,
                      again |-> FALSE, pre |-> Snapshot]
          /\ probe' = [probe EXCEPT !.acl = c.acl, !.ret = c.ret]
  /\ UNCHANGED <<service, nodes, lbRules, fwRules, allocated, byController, stable>>

SpecAcl == InitAcl /\ [][UpdateACL]_vars

----------------------------------------------------------------------------
(* verifyHosts on its own, and the handlers that call it *)

\* the virtual machines of the project: two networks, names in either case
VmChoices ==
  { [Name |-> "Node1", Id |-> "vm-1", Networkid |-> "net-1"],
    [Name |-> "node2", Id |-> "vm-2", Networkid |-> "net-1"],
    [Name |-> "node3", Id |-> "vm-3", Networkid |-> "net-2"],
    [Name |-> "NODE4", Id |-> "vm-4", Networkid |-> "net-2"] }

\* the list responses: some of the virtual machines, in any order
VmLists ==
  UNION {Perms(S) : S \in {T \in SUBSET VmChoices : Cardinality(T) <= MaxVms}}

\* the names of the nodes: short and fully qualified, in either case, and one
\* that no virtual machine has
NodeNames ==
  { "node1", "NODE2", "node3", "node5", "node1.example.com", "Node1.Example.COM" }

HostNodeSets ==
  {N \in SUBSET NodeNames : Cardinality(N) \in 1..2}

InitHosts ==
  /\ service = PlainService("svc-ports")
  /\ nodes \in HostNodeSets
  /\ lbRules = EmptyMap
  /\ fwRules = {}
  /\ allocated = {"ip-1"}
  /\ byController = {}
  /\ stable = FALSE
  /\ last = Idle
  /\ probe \in [fn : {"verifyHosts"}, vms : VmLists, done : {FALSE}, listed : {FALSE},
                err : {FALSE}, hostIDs : {<<>>}, networkID : {""}]

\* one call of verifyHosts
VerifyHosts ==
  /\ last = Idle
  /\ probe.fn = "verifyHosts"
  /\ ~probe.done
  /\ \E c \in Outcomes(LAMBDA F : verifyHosts(NewRun(F, <<>>, <<>>, <<>>, <<>>, ""), nodes)) :
       probe' = [probe EXCEPT !.done = TRUE, !.listed = c.ok, !.err = c.err,
                              !.hostIDs = IF c.err THEN <<>> ELSE c.hostIDs,
                              !.networkID = IF c.err THEN "" ELSE c.networkID]
  /\ UNCHANGED <<service, nodes, lbRules, fwRules, allocated, byController, stable, last>>

NextHosts ==
  \/ VerifyHosts
  \/ Ensure
  \/ Update
  \/ Return

SpecHosts == InitHosts /\ [][NextHosts]_vars

----------------------------------------------------------------------------
(* compareStringSlice on its own *)

CidrChoices ==
  { defaultAllowedCIDR, "10.0.0.0/8", "192.168.0.0/16" }

\* a []string: nil, or a slice with its elements; len and range see the
\* elements only, none for nil
StringSlices ==
  {[nil |-> TRUE, elems |-> <<>>]}
    \cup {[nil |-> FALSE, elems |-> e] : e \in SeqsUpTo(CidrChoices, MaxCidrs)}

InitCompare ==
  /\ service = PlainService("svc-cidr")
  /\ nodes = AllNodes
  /\ lbRules = EmptyMap
  /\ fwRules = {}
  /\ allocated = {"ip-1"}
  /\ byController = {}
  /\ stable = FALSE
  /\ last = Idle
  /\ probe \in [fn : {"compareStringSlice"}, x : StringSlices, y : StringSlices,
                done : {FALSE}, xy : {FALSE}, yx : {FALSE}]

\* compareStringSlice(x, y) and compareStringSlice(y, x)
Compare ==
  /\ probe.fn = "compareStringSlice"
  /\ ~probe.done
  /\ probe' = [probe EXCEPT !.done = TRUE,
                            !.xy = compareStringSlice(probe.x.elems, probe.y.elems),
                            !.yx = compareStringSlice(probe.y.elems, probe.x.elems)]
  /\ UNCHANGED <<service, nodes, lbRules, fwRules, allocated, byController, stable, last>>

SpecCompare == InitCompare /\ [][Compare]_vars

----------------------------------------------------------------------------
(* updateFirewallRule on its own *)

\* the firewall rules the public IP ip-2 can have before the call
FirewallChoices ==
  { FirewallRule("ip-2", "tcp", 80, <<defaultAllowedCIDR>>),
    FirewallRule("ip-2", "tcp", 80, <<"10.0.0.0/8">>),
    FirewallRule("ip-2", "tcp", 443, <<defaultAllowedCIDR>>),
    FirewallRule("ip-2", "udp", 80, <<defaultAllowedCIDR>>),
    FirewallRule("ip-2", "tcp", 80, <<"192.168.0.0/16", "10.0.0.0/8">>) }

\* what a call returned and left behind
Result(c) ==
  [fw |-> c.fw, log |-> c.log, err |-> c.err, ret |-> c.ret]

NoResult ==
  [fw |-> {}, log |-> <<>>, err |-> FALSE, ret |-> FALSE]

InitFirewall ==
  /\ service = PlainService("svc-cidr")
  /\ nodes = AllNodes
  /\ lbRules = EmptyMap
  /\ fwRules \in SUBSET FirewallChoices
  /\ allocated = IpIds
  /\ byController = {"ip-2"}
  /\ stable = FALSE
  /\ last = Idle
  /\ probe \in [fn : {"updateFirewallRule"}, port : {80, 443},
                protocol : {LoadBalancerProtocolTCP, LoadBalancerProtocolTCPProxy,
                            LoadBalancerProtocolUDP},
                allowedIPs : {<<>>, <<"10.0.0.0/8", "192.168.0.0/16">>},
                result : {NoResult}, asIf : {NoResult}]

\* one call of updateFirewallRule with the list of the probe; asIf is what the
\* same call with the list [0.0.0.0/0] returns and leaves behind
UpdateFirewall ==
  /\ last = Idle
  /\ probe.fn = "updateFirewallRule"
  /\ \E rank \in Perms(CidrListsSeen(service)) :
       \E c \in Outcomes(LAMBDA F :
                  updateFirewallRule(NewRun(F, rank, <<>>, <<>>, <<>>, ""), "ip-2",
                                     probe.port, probe.protocol, probe.allowedIPs)) :
         /\ fwRules' = c.fw
         /\ last' = [op |-> "updateFirewallRule", err |-> c.err, log |-> c.log,
                     again |-> FALSE, pre |-> Snapshot]
         /\ probe' = [probe EXCEPT
                        !.result = Result(c),
                        !.asIf = Result(updateFirewallRule(
                                          NewRun(c.F, rank, <<>>, <<>>, <<>>, ""), "ip-2",
                                          probe.port, probe.protocol,
                                          <<defaultAllowedCIDR>>))]
  /\ UNCHANGED <<service, nodes, lbRules, allocated, byController, stable>>

NextFirewall ==
  \/ UpdateFirewall
  \/ Return

SpecFirewall == InitFirewall /\ [][NextFirewall]_vars

----------------------------------------------------------------------------
(* The handlers together with updateFirewallRule on its own *)

InitCreate ==
  \/ Init
  \/ InitFirewall /\ probe.allowedIPs = <<>> /\ Cardinality(fwRules) <= 2

NextCreate ==
  \/ Ensure
  \/ Return
  \/ ChangeService
  \/ ChangeNodes
  \/ UpdateFirewall

SpecCreate == InitCreate /\ [][NextCreate]_vars

----------------------------------------------------------------------------
(* Ensure for Services that carry the hostname annotation *)

ServiceAnnotationLoadBalancerLoadbalancerHostname ==
  "service.beta.kubernetes.io/cloudstack-load-balancer-hostname"

\* the values the hostname annotation is given, and "absent"
HostnameValues ==
  { "absent", "lb.example.com", "" }

HostnameServices ==
  {[PlainService("svc-hostname") EXCEPT
      !.Ports = pl,
      !.Annotations = AnnotationsWith(ServiceAnnotationLoadBalancerLoadbalancerHostname, v)] :
     pl \in {<<>>, <<PortChoices[1]>>, <<PortChoices[3]>>}, v \in HostnameValues}

InitStatus ==
  /\ service \in HostnameServices
  /\ nodes = AllNodes
  /\ lbRules = EmptyMap
  /\ fwRules = {}
  /\ allocated = {"ip-1"}
  /\ byController = {}
  /\ stable = FALSE
  /\ last = Idle
  /\ probe = NoProbe

\* the Service is edited: its hostname annotation or its port
EditHostnameService ==
  \E s \in HostnameServices :
    /\ last = Idle
    /\ s # service
    /\ service' = s
    /\ stable' = FALSE
    /\ UNCHANGED <<nodes, lbRules, fwRules, allocated, byController, last, probe>>

NextStatus ==
  \/ Ensure
  \/ Return
  \/ EditHostnameService

SpecStatus == InitStatus /\ [][NextStatus]_vars

----------------------------------------------------------------------------
(* GetLoadBalancer *)

GetLoadBalancer_AlwaysExists(c, svc) ==
  Then(getLoadBalancer(c, svc),
       LAMBDA c1 : [c1 EXCEPT !.status = Ingress(c1.ipAddr, ""), !.exists = TRUE])

\* (nil, false, err) when the rules cannot be listed, (nil, false, nil) when
\* there is no rule, else the IP kept by getLoadBalancer
GetLoadBalancer(c, svc) ==
  Then(getLoadBalancer(c, svc),
       LAMBDA c1 :
         IF DOMAIN c1.rules = {} THEN [c1 EXCEPT !.status = NoStatus, !.exists = FALSE]
         ELSE [c1 EXCEPT !.status = Ingress(c1.ipAddr, ""), !.exists = TRUE])

Get ==
  /\ last = Idle
  /\ \E listOrd \in ListOrders :
       \E c \in Outcomes(LAMBDA F :
                  GetLoadBalancer(NewRun(F, <<>>, listOrd, <<>>, <<>>, ""), service)) :
         Finish("Get", c)

InitGet ==
  /\ Init
  /\ service.Name \in {"svc-ports", "svc-ip"}

NextGet ==
  \/ Get
  \/ Ensure
  \/ Delete
  \/ Return
  \/ ChangeService

SpecGet == InitGet /\ [][NextGet]_vars

----------------------------------------------------------------------------
(* EnsureLoadBalancer and its context *)

\* EnsureLoadBalancer called with a context that is cancelled when the run has
\* issued cancelledAt calls; the function never reads its ctx parameter and the
\* calls of the CloudStack client take none
EnsureWithContext ==
  /\ last = Idle
  /\ \E rank \in Perms(CidrListsSeen(service)), listOrd \in ListOrders,
     mapOrd \in Perms(DOMAIN lbRules), pick \in Picks :
       \E c \in Outcomes(LAMBDA F :
                  EnsureLoadBalancer(NewRun(F, rank, listOrd, mapOrd, <<>>, pick),
                                     service, nodes)) :
         \E k \in 0..Len(c.log) :
           /\ lbRules' = c.lb
           /\ fwRules' = c.fw
           /\ allocated' = c.al
           /\ byController' = c.bc
           /\ last' = [op |-> "Ensure", err |-> c.err, log |-> c.log, again |-> stable,
                       pre |-> Snapshot,
                       status |-> IF c.err THEN NoStatus ELSE c.status,
                       exists |-> FALSE]
           /\ stable' = ~c.err
           /\ probe' = [fn |-> "ctx", cancelledAt |-> k]
           /\ UNCHANGED <<service, nodes>>

NextContext ==
  \/ EnsureWithContext
  \/ Return
  \/ EditHostnameService

SpecContext == InitStatus /\ [][NextContext]_vars

----------------------------------------------------------------------------
(* The name of the load balancer rule of a port *)

\* the %d verb of fmt.Sprintf
RECURSIVE FormatInt(_)
FormatInt(n) ==
  LET digit == <<"0", "1", "2", "3", "4", "5", "6", "7", "8", "9">>
  IN IF n < 10 THEN digit[n + 1] ELSE FormatInt(n \div 10) \o digit[(n % 10) + 1]

lbRuleName_WithoutProtocol(lbName, protocol, port) ==
  lbName \o "-" \o FormatInt(port)

\* fmt.Sprintf("%s-%s-%d", lb.name, protocol, port.Port); String() of a
\* LoadBalancerProtocol is its CSProtocol()
lbRuleName(lbName, protocol, port) ==
  lbName \o "-" \o CSProtocol(protocol) \o "-" \o FormatInt(port)

InitName ==
  /\ service = PlainService("svc-ports")
  /\ nodes = AllNodes
  /\ lbRules = EmptyMap
  /\ fwRules = {}
  /\ allocated = {"ip-1"}
  /\ byController = {}
  /\ stable = FALSE
  /\ last = Idle
  /\ probe \in [fn : {"lbRuleName"},
                base : {"svc", "svc-tcp"},
                port : {ServicePort(pr, po, np) : pr \in {"TCP", "UDP"},
                                                  po \in {8, 80, 8000}, np \in {30080, 30081}},
                other : {ServicePort(pr, po, np) : pr \in {"TCP", "UDP"},
                                                   po \in {8, 80, 8000}, np \in {30080, 30081}},
                value : {"absent", "true"},
                done : {FALSE}, names : {<<>>}]

\* the names the loop over the ports gives to two ports of one Service
Name ==
  /\ probe.fn = "lbRuleName"
  /\ ~probe.done
  /\ LET an == AnnotationsWith(ServiceAnnotationLoadBalancerProxyProtocol, probe.value)
     IN probe' = [probe EXCEPT
                    !.done = TRUE,
                    !.names = << lbRuleName(probe.base,
                                            ProtocolFromServicePort(probe.port, an),
                                            probe.port.Port),
                                 lbRuleName(probe.base,
                                            ProtocolFromServicePort(probe.other, an),
                                            probe.other.Port) >>]
  /\ UNCHANGED <<service, nodes, lbRules, fwRules, allocated, byController, stable, last>>

SpecName == InitName /\ [][Name]_vars

----------------------------------------------------------------------------
(* EnsureLoadBalancerDeleted for rules as CloudStack may list them *)

\* the rules ListLoadBalancerRules can return for the Service svc-ports: those
\* the controller created, and rules whose protocol ProtocolFromLoadBalancer
\* does not know ("ssl" is a protocol of CloudStack) or whose public port
\* strconv.ParseInt rejects
ListedRuleChoices ==
  {[Name |-> RuleName("svc-ports", LoadBalancerProtocolTCP, po), Algorithm |-> "roundrobin",
    Protocol |-> pr, Publicip |-> AddrOfId("ip-2"), Publicipid |-> "ip-2",
    Publicport |-> IF numeric THEN Itoa(po) ELSE <<>>, Privateport |-> Itoa(30080),
    Cidrlist |-> <<>>, Networkid |-> "net-1", Instances |-> {"vm-1"}] :
     po \in {80, 443}, pr \in {"tcp", "ssl"}, numeric \in BOOLEAN}

InitDeleted ==
  /\ service = PlainService("svc-ports")
  /\ nodes = AllNodes
  /\ \E S \in SUBSET ListedRuleChoices :
       /\ \A r, q \in S : r.Name = q.Name => r = q
       /\ lbRules = [n \in {r.Name : r \in S} |-> CHOOSE r \in S : r.Name = n]
  /\ fwRules \in SUBSET {FirewallRule("ip-2", "tcp", 80, <<defaultAllowedCIDR>>),
                         FirewallRule("ip-2", "tcp", 443, <<defaultAllowedCIDR>>)}
  /\ allocated = IpIds
  /\ byController = {"ip-2"}
  /\ stable = FALSE
  /\ last = Idle
  /\ probe = NoProbe

NextDeleted ==
  \/ Delete
  \/ Return

SpecDeleted == InitDeleted /\ [][NextDeleted]_vars

----------------------------------------------------------------------------
(* The handlers called for several Services in turn *)

\* three Services of one cluster: one whose name is part of another's name,
\* and one that asks for the address the controller may have allocated for
\* another Service
SeveralServices ==
  { PlainService("svc-ports"),
    PlainService("my-svc-ports"),
    [PlainService("svc-ip") EXCEPT !.Ports = <<PortChoices[3]>>,
                                   !.LoadBalancerIP = "203.0.113.2"] }

InitServices ==
  /\ service \in SeveralServices
  /\ nodes = AllNodes
  /\ lbRules = EmptyMap
  /\ fwRules = {}
  /\ allocated = {"ip-1"}
  /\ byController = {}
  /\ stable = FALSE
  /\ last = Idle
  /\ probe = NoProbe

\* the service controller turns to another Service
OtherService ==
  \E s \in SeveralServices :
    /\ last = Idle
    /\ s # service
    /\ service' = s
    /\ stable' = FALSE
    /\ UNCHANGED <<nodes, lbRules, fwRules, allocated, byController, last, probe>>

NextServices ==
  \/ Ensure
  \/ Update
  \/ Delete
  \/ Return
  \/ OtherService

SpecServices == InitServices /\ [][NextServices]_vars

----------------------------------------------------------------------------
(* setServiceAnnotation and patchServiceAnnotation (cloudstack.go) *)

maxRetries == 3

\* what a Patch call of the Kubernetes client can return: nil, a conflict
\* error, a not-found error, another error
PatchResults ==
  {"nil", "conflict", "notfound", "other"}

\* one pass of the loop of patchServiceAnnotation whose Patch call returned r,
\* had it tried again after any error
PatchAttempt_RetriesAnyError(p, r) ==
  LET p1 == [p EXCEPT !.results = Append(@, r)]
  IN IF r = "nil" THEN [p1 EXCEPT !.pc = "done", !.ret = "nil", !.stored = p.value]
     ELSE IF p.attempt < maxRetries - 1
     THEN [p1 EXCEPT !.attempt = @ + 1, !.slept = @ + 1]
     ELSE [p1 EXCEPT !.pc = "done", !.ret = "error"]

\* one pass of the loop of patchServiceAnnotation whose Patch call returned r
PatchAttempt(p, r) ==
  LET p1 == [p EXCEPT !.results = Append(@, r)]
  IN IF r = "nil" THEN [p1 EXCEPT !.pc = "done", !.ret = "nil", !.stored = p.value]
     ELSE IF r = "conflict"
     THEN IF p.attempt < maxRetries - 1
          THEN [p1 EXCEPT !.attempt = @ + 1, !.slept = @ + 1]
          ELSE [p1 EXCEPT !.pc = "done", !.ret = "error"]
     ELSE IF r = "notfound" THEN [p1 EXCEPT !.pc = "done", !.ret = "nil"]
     ELSE [p1 EXCEPT !.pc = "done", !.ret = "error"]

\* setServiceAnnotation up to its call of patchServiceAnnotation: without a
\* client builder, when the Service is not found or when the annotation has the
\* value already it returns nil, on another error it returns the error
setServiceAnnotation ==
  /\ probe.fn = "setServiceAnnotation"
  /\ probe.pc = "start"
  /\ \E get \in {"no client builder", "no client", "notfound", "other", "found"} :
       probe' = IF get \in {"no client builder", "notfound"}
                THEN [probe EXCEPT !.pc = "done", !.ret = "nil"]
                ELSE IF get \in {"no client", "other"}
                THEN [probe EXCEPT !.pc = "done", !.ret = "error"]
                ELSE IF probe.stored = probe.value
                THEN [probe EXCEPT !.pc = "done", !.ret = "nil"]
                ELSE [probe EXCEPT !.pc = "patch"]
  /\ UNCHANGED <<service, nodes, lbRules, fwRules, allocated, byController, stable, last>>

\* the loop "for attempt := 0; attempt < maxRetries; attempt++", one pass; the
\* return after the loop is taken when the loop ends without a return
patchServiceAnnotation ==
  /\ probe.fn = "setServiceAnnotation"
  /\ probe.pc = "patch"
  /\ IF probe.attempt < maxRetries
     THEN \E r \in PatchResults : probe' = PatchAttempt(probe, r)
     ELSE probe' = [probe EXCEPT !.pc = "done", !.ret = "error"]
  /\ UNCHANGED <<service, nodes, lbRules, fwRules, allocated, byController, stable, last>>

InitPatch ==
  /\ service = PlainService("svc-hostname")
  /\ nodes = AllNodes
  /\ lbRules = EmptyMap
  /\ fwRules = {}
  /\ allocated = {"ip-1"}
  /\ byController = {}
  /\ stable = FALSE
  /\ last = Idle
  /\ probe \in [fn : {"setServiceAnnotation"},
                key : {ServiceAnnotationLoadBalancerLoadbalancerHostname,
                       ServiceAnnotationLoadBalancerProxyProtocol},
                value : {"true", "lb.example.com"},
                stored : {"absent", "true", "lb.example.com"},
                pc : {"start"}, attempt : {0}, slept : {0},
                results : {<<>>}, ret : {""}]

NextPatch ==
  \/ setServiceAnnotation
  \/ patchServiceAnnotation

\* a call that has started runs on until it returns
SpecPatch == InitPatch /\ [][NextPatch]_vars /\ WF_vars(NextPatch)

----------------------------------------------------------------------------
(* cloudstack.go: getManagementServerVersion *)

\* A version string is a sequence of one-character strings. The strings the
\* management server may report are built from dot-separated components.
MaxComponents == 4

ComponentChoices ==
  { <<"4">>, <<"1", "7">>, <<"0", "4">>, <<>>,
    <<"1", "-", "S">>, <<"0", "-", "S">>, <<"S">> }

Numbers == {"0", "1", "4", "7"}

DigitValue == [c \in Numbers |-> CASE c = "0" -> 0 [] c = "1" -> 1
                                   [] c = "4" -> 4 [] c = "7" -> 7]

\* strings.Join(parts, ".")
RECURSIVE Join(_)
Join(parts) ==
  IF Len(parts) = 0 THEN <<>>
  ELSE IF Len(parts) = 1 THEN parts[1]
  ELSE parts[1] \o <<".">> \o Join(Tail(parts))

\* strings.IndexRune: the first position of the character, 0 when absent
IndexRune(s, ch) ==
  IF \E i \in 1..Len(s) : s[i] = ch
  THEN CHOOSE i \in 1..Len(s) : s[i] = ch /\ \A j \in 1..(i - 1) : s[j] # ch
  ELSE 0

\* strings.SplitN(s, ".", n) for n >= 1: at most n parts, the last one unsplit
RECURSIVE SplitN(_, _)
SplitN(s, n) ==
  LET i == IndexRune(s, ".")
  IN IF n = 1 \/ i = 0 THEN <<s>>
     ELSE <<SubSeq(s, 1, i - 1)>> \o SplitN(SubSeq(s, i + 1, Len(s)), n - 1)

\* strings.Split(s, "."): every part; the slice returned has exactly as many
\* elements as it has capacity
Split(s) ==
  SplitN(s, Len(s) + 1)

VersionStrings ==
  {Join(parts) : parts \in UNION {[1..k -> ComponentChoices] : k \in 1..MaxComponents}}

ParsedVersion(major, minor, patch, pre) ==
  [kind |-> "version", Major |-> major, Minor |-> minor, Patch |-> patch, Pre |-> pre]

ParseError == [kind |-> "error", Major |-> 0, Minor |-> 0, Patch |-> 0, Pre |-> <<>>]

\* the run-time panic of a slice expression that exceeds the capacity
SliceBoundsPanic == [kind |-> "panic", Major |-> 0, Minor |-> 0, Patch |-> 0, Pre |-> <<>>]

NoVersion == [kind |-> "none", Major |-> 0, Minor |-> 0, Patch |-> 0, Pre |-> <<>>]

containsOnly(s, S) ==
  \A i \in 1..Len(s) : s[i] \in S

hasLeadingZeroes(s) ==
  Len(s) > 1 /\ s[1] = "0"

RECURSIVE ParseUint(_)
ParseUint(s) ==
  IF Len(s) = 1 THEN DigitValue[s[1]]
  ELSE 10 * ParseUint(SubSeq(s, 1, Len(s) - 1)) + DigitValue[s[Len(s)]]

\* whether the string is a number semver.Parse accepts
NumberOk(s) ==
  Len(s) > 0 /\ containsOnly(s, Numbers) /\ ~hasLeadingZeroes(s)

\* semver.NewPRVersion: a pre-release identifier is not empty; a numeric one
\* has no leading zero, any other one is alphanumeric (hyphens included)
PRVersionOk(s) ==
  /\ Len(s) > 0
  /\ IF containsOnly(s, Numbers) THEN ~hasLeadingZeroes(s)
     ELSE containsOnly(s, Numbers \cup {"S", "v", "-"})

\* semver.Parse
Parse(s) ==
  LET parts == SplitN(s, 3)
  IN IF Len(s) = 0 \/ Len(parts) # 3 THEN ParseError
     ELSE IF ~NumberOk(parts[1]) \/ ~NumberOk(parts[2]) THEN ParseError
     ELSE LET preIndex == IndexRune(parts[3], "-")
              patchStr == IF preIndex = 0 THEN parts[3]
                          ELSE SubSeq(parts[3], 1, preIndex - 1)
              prerelease == IF preIndex = 0 THEN <<>>
                            ELSE Split(SubSeq(parts[3], preIndex + 1, Len(parts[3])))
          IN IF ~NumberOk(patchStr) THEN ParseError
             ELSE IF \E i \in 1..Len(prerelease) : ~PRVersionOk(prerelease[i])
             THEN ParseError
             ELSE ParsedVersion(ParseUint(parts[1]), ParseUint(parts[2]),
                                ParseUint(patchStr), prerelease)

\* strings.TrimLeft(p, "0")
RECURSIVE TrimLeftZeros(_)
TrimLeftZeros(p) ==
  IF Len(p) > 0 /\ p[1] = "0" THEN TrimLeftZeros(Tail(p)) ELSE p

\* semver.ParseTolerant: a leading "v" is dropped, leading zeros of the parts
\* are removed, a version of fewer than three parts is filled up with zeros
ParseTolerant(str) ==
  LET s == IF Len(str) > 0 /\ str[1] = "v" THEN Tail(str) ELSE str
      split == SplitN(s, 3)
      Clean(p) == IF Len(p) > 1
                  THEN LET t == TrimLeftZeros(p)
                       IN IF Len(t) = 0 \/ t[1] \notin Numbers THEN <<"0">> \o t ELSE t
                  ELSE p
      parts == [i \in 1..Len(split) |-> Clean(split[i])]
  IN IF Len(parts) < 3
     THEN IF \E i \in 1..Len(parts[Len(parts)]) : parts[Len(parts)][i] \in {"+", "-"}
          THEN ParseError
          ELSE Parse(Join(parts \o [i \in 1..(3 - Len(parts)) |-> <<"0">>]))
     ELSE Parse(Join(parts))

\* The version of the first management server listed. apiErr: the list call
\* fails; count: how many servers the response holds.
ManagementServerVersion(apiErr, count, version) ==
  IF apiErr THEN ParseError
  ELSE IF count = 0 THEN ParseError
  ELSE LET components == Split(version)
       IN IF Len(components) < 3 THEN SliceBoundsPanic
          ELSE ParseTolerant(Join(SubSeq(components, 1, 3)))

getManagementServerVersion ==
  /\ probe.fn = "getManagementServerVersion"
  /\ probe.pc = "start"
  /\ probe' = [probe EXCEPT
                 !.pc = "done",
                 !.ret = ManagementServerVersion(probe.apiErr, probe.count, probe.version)]
  /\ UNCHANGED <<service, nodes, lbRules, fwRules, allocated, byController, stable, last>>

InitVersion ==
  /\ service = PlainService("svc-ports")
  /\ nodes = AllNodes
  /\ lbRules = EmptyMap
  /\ fwRules = {}
  /\ allocated = {"ip-1"}
  /\ byController = {}
  /\ stable = FALSE
  /\ last = Idle
  /\ probe \in [fn : {"getManagementServerVersion"},
                apiErr : BOOLEAN,
                count : 0..1,
                version : VersionStrings,
                pc : {"start"},
                ret : {NoVersion}]

NextVersion == getManagementServerVersion

SpecVersion == InitVersion /\ [][NextVersion]_vars

----------------------------------------------------------------------------
(* What the claims are stated with *)

Log == last.log

Calls(call) ==
  {i \in 1..Len(Log) : Log[i].call = call}

Mutations ==
  {i \in 1..Len(Log) : Log[i].call \in MutatingCalls}

\* the source CIDR list Ensure reconciles the firewall to
DesiredCidrs(svc) ==
  IF Len(svc.LoadBalancerSourceRanges) = 0 THEN <<defaultAllowedCIDR>>
  ELSE svc.LoadBalancerSourceRanges

DesiredAlgorithm(svc) ==
  IF svc.SessionAffinity = "ClientIP" THEN "source" ELSE "roundrobin"

DesiredName(svc, port) ==
  RuleName(GetLoadBalancerName(svc), ProtocolFromServicePort(port, svc.Annotations), port.Port)

PortsOf(svc) ==
  {svc.Ports[i] : i \in 1..Len(svc.Ports)}

\* the firewall rules of snap for the port on the IP
PortFirewall(snap, svc, port, ipid) ==
  {r \in snap.fw :
     /\ r.Ipaddressid = ipid
     /\ r.Protocol = IPProtocol(ProtocolFromServicePort(port, svc.Annotations))
     /\ r.Startport = port.Port
     /\ r.Endport = port.Port}

\* CloudStack as in snap holds exactly what svc asks for, on the public IP ipid:
\* one LB rule per port, with the port's name and fields, and one firewall rule
\* per port, with the desired CIDR list
ConvergedOn(snap, svc, ipid) ==
  /\ ipid \in snap.al
  /\ \A p \in PortsOf(svc) :
       ProtocolFromServicePort(p, svc.Annotations) # LoadBalancerProtocolInvalid
  /\ DOMAIN snap.lb = {DesiredName(svc, p) : p \in PortsOf(svc)}
  /\ \A p \in PortsOf(svc) :
       LET r == snap.lb[DesiredName(svc, p)]
       IN /\ r.Publicipid = ipid
          /\ r.Publicip = AddrOfId(ipid)
          /\ r.Publicport = Itoa(p.Port)
          /\ r.Privateport = Itoa(p.NodePort)
          /\ r.Protocol = CSProtocol(ProtocolFromServicePort(p, svc.Annotations))
          /\ r.Algorithm = DesiredAlgorithm(svc)
          /\ Cardinality(PortFirewall(snap, svc, p, ipid)) = 1
          /\ \A f \in PortFirewall(snap, svc, p, ipid) :
               compareStringSlice(f.Cidrlist, DesiredCidrs(svc))

Converged(snap, svc) ==
  \E ipid \in IpIds : ConvergedOn(snap, svc, ipid)

----------------------------------------------------------------------------
(* C1 *)

\* C1 (as claimed): an Ensure that follows a successful Ensure of the same
\* Service and the same nodes issues no mutating call.
C1_SecondEnsureOnlyReads ==
  (last.op = "Ensure" /\ last.again) => Mutations = {}

----------------------------------------------------------------------------
(* C2 *)

\* the successful Ensure that just returned ran for a Service that differs from
\* s0 in the public port or the node port of its i-th port and in nothing else,
\* on the CloudStack state that s0 had converged to
OnePortChanged(s0, i) ==
  /\ last.op = "Ensure"
  /\ ~last.err
  /\ i \in 1..Len(s0.Ports)
  /\ Len(service.Ports) = Len(s0.Ports)
  /\ s0 # service
  /\ service = [s0 EXCEPT !.Ports[i] = service.Ports[i]]
  /\ service.Ports[i].Protocol = s0.Ports[i].Protocol
  /\ Converged(last.pre, s0)

\* the run deleted the old rule of the port once, created the new rule once and
\* updated nothing
OneDeleteOneCreate(s0, i) ==
  /\ Calls("UpdateLoadBalancerRule") = {}
  /\ Cardinality(Calls("DeleteLoadBalancerRule")) = 1
  /\ Cardinality(Calls("CreateLoadBalancerRule")) = 1
  /\ \A d \in Calls("DeleteLoadBalancerRule") : Log[d].rule = DesiredName(s0, s0.Ports[i])
  /\ \A k \in Calls("CreateLoadBalancerRule") :
       Log[k].rule = DesiredName(service, service.Ports[i])

DeleteBeforeCreate ==
  \A d \in Calls("DeleteLoadBalancerRule"), k \in Calls("CreateLoadBalancerRule") : d < k

CreateBeforeDelete ==
  \A d \in Calls("DeleteLoadBalancerRule"), k \in Calls("CreateLoadBalancerRule") : k < d

\* C2 (as claimed): when one port of the Service changed its public port or its
\* node port since the Ensure before, Ensure deletes the old rule once, creates
\* the new rule once, in this order, and updates no rule.
C2_DeleteThenCreate ==
  \A s0 \in Services : \A i \in 1..MaxPorts :
    OnePortChanged(s0, i) => OneDeleteOneCreate(s0, i) /\ DeleteBeforeCreate

\* C2 (amended): when one port of the Service changed its public port or its
\* node port since the Ensure before, Ensure deletes the old rule once, creates
\* the new rule once and updates no rule; the delete comes first when the public
\* port is the same (the rule keeps its name), and the create comes first when
\* the public port changed (the old rule is deleted by the cleanup).
C2_OneDeleteOneCreate ==
  \A s0 \in Services : \A i \in 1..MaxPorts :
    OnePortChanged(s0, i) =>
      /\ OneDeleteOneCreate(s0, i)
      /\ s0.Ports[i].Port = service.Ports[i].Port => DeleteBeforeCreate
      /\ s0.Ports[i].Port # service.Ports[i].Port => CreateBeforeDelete

\* an Ensure recreated the rule of a port whose node port changed, and one
\* recreated the rule of a port whose public port changed
C2_Witness ==
  \E s0 \in Services : \E i \in 1..MaxPorts :
    /\ OnePortChanged(s0, i)
    /\ s0.Ports[i].Port = service.Ports[i].Port
    /\ Calls("DeleteLoadBalancerRule") # {}

C2_WitnessPublicPort ==
  \E s0 \in Services : \E i \in 1..MaxPorts :
    /\ OnePortChanged(s0, i)
    /\ s0.Ports[i].Port # service.Ports[i].Port
    /\ Calls("DeleteLoadBalancerRule") # {}

----------------------------------------------------------------------------
(* C3 *)

\* the version from which an LB rule's CIDR list can be updated in place
CidrUpdateVersion ==
  <<4, 22, 0>>

VersionAtLeast(v, w) ==
  \/ v[1] > w[1]
  \/ v[1] = w[1] /\ v[2] > w[2]
  \/ v[1] = w[1] /\ v[2] = w[2] /\ v[3] >= w[3]

\* the rule that was checked matches the port in public IP, ports, algorithm
\* and protocol, and its CIDR list is not the desired one
OnlyCidrDiffers ==
  /\ last.op = "checkLoadBalancerRule"
  /\ LET port == Head(service.Ports)
         name == DesiredName(service, port)
     IN /\ name \in DOMAIN last.pre.lb
        /\ LET r == last.pre.lb[name]
           IN /\ r.Publicip = probe.ipAddr
              /\ r.Publicport = Itoa(port.Port)
              /\ r.Privateport = Itoa(port.NodePort)
              /\ r.Algorithm = DesiredAlgorithm(service)
              /\ r.Protocol = CSProtocol(ProtocolFromServicePort(port, service.Annotations))
              /\ ~compareStringSlice(r.Cidrlist, DesiredCidrs(service))

\* C3 (as claimed): for a rule of which only the CIDR list differs from the
\* desired one, checkLoadBalancerRule reports an update in place and deletes
\* nothing when the CloudStack version is at least 4.22, and deletes the rule
\* when the version is below 4.22.
C3_VersionGatedCidr ==
  OnlyCidrDiffers =>
    IF VersionAtLeast(probe.version, CidrUpdateVersion)
    THEN probe.rule # <<>> /\ probe.needsUpdate /\ Calls("DeleteLoadBalancerRule") = {}
    ELSE Calls("DeleteLoadBalancerRule") # {}

----------------------------------------------------------------------------
(* C5 *)

\* C5 (as claimed): for all lists D of host IDs and O of instances,
\* symmetricDifference returns assign = D \ O and remove = O \ D as sets.
C5_DiffIsMinimal ==
  (probe.fn = "symmetricDifference" /\ probe.done) =>
    /\ SeqToSet(probe.assign) = SeqToSet(probe.hostIDs) \ SeqToSet(probe.lbInstances)
    /\ SeqToSet(probe.remove) = SeqToSet(probe.lbInstances) \ SeqToSet(probe.hostIDs)

----------------------------------------------------------------------------
(* C4 *)

\* the successful Ensure that just returned ran for a Service with the one port
\* p, on the CloudStack state that s0, the same Service with the ports p and q,
\* had converged to on the public IP
Shrunk(s0, ipid) ==
  /\ last.op = "Ensure"
  /\ ~last.err
  /\ Len(s0.Ports) = 2
  /\ Len(service.Ports) = 1
  /\ Head(service.Ports) \in PortsOf(s0)
  /\ service = [s0 EXCEPT !.Ports = service.Ports]
  /\ ConvergedOn(last.pre, s0, ipid)

\* C4: when the ports of the Service shrink from {p, q} to {p}, Ensure deletes
\* the LB rule of q and the firewall rule of q and nothing else, and leaves the
\* LB rule of p, its members, the firewall rule of p and the public IP as they were.
C4_CleanupClosure ==
  \A s0 \in Services, ipid \in IpIds :
    Shrunk(s0, ipid) =>
      LET p == Head(service.Ports)
          q == CHOOSE x \in PortsOf(s0) : x # p
      IN /\ \E d \in Mutations, f \in Mutations :
              /\ Mutations = {d, f}
              /\ Log[d].call = "DeleteLoadBalancerRule"
              /\ Log[d].rule = DesiredName(s0, q)
              /\ Log[f].call = "DeleteFirewallRule"
              /\ Log[f].ip = ipid /\ Log[f].port = q.Port
         /\ DOMAIN lbRules = {DesiredName(s0, p)}
         /\ lbRules[DesiredName(s0, p)] = last.pre.lb[DesiredName(s0, p)]
         /\ fwRules = last.pre.fw \ PortFirewall(last.pre, s0, q, ipid)
         /\ PortFirewall(Snapshot, s0, p, ipid) = PortFirewall(last.pre, s0, p, ipid)
         /\ allocated = last.pre.al

\* an Ensure removed the rules of the port that was dropped, and the rule that
\* stays has members
C4_Witness ==
  \E s0 \in Services, ipid \in IpIds :
    /\ Shrunk(s0, ipid)
    /\ Calls("DeleteLoadBalancerRule") # {}
    /\ \A n \in DOMAIN lbRules : lbRules[n].Instances # {}

----------------------------------------------------------------------------
(* C6 *)

\* C6: neither Ensure nor Delete disassociates a public IP that carries the
\* address the Service names as its loadBalancerIP, unless the controller
\* allocated that IP itself; a public IP that existed before and is named by the
\* Service stays allocated.
C6_NamedIpNotReleased ==
  last.op \in {"Ensure", "Delete"} =>
    \A i \in Calls("DisassociateIpAddress") :
      \/ Log[i].ip \in last.pre.bc
      \/ \E a \in Calls("AssociateIpAddress") : Log[a].ok /\ Log[a].ip = Log[i].ip
      \/ AddrOfId(Log[i].ip) # service.LoadBalancerIP

\* a Delete removed the rules of a Service from the pre-existing IP it names,
\* and the IP is still allocated
C6_Witness ==
  /\ last.op = "Delete"
  /\ ~last.err
  /\ service.LoadBalancerIP = AddrOfId("ip-1")
  /\ "ip-1" \notin last.pre.bc
  /\ \E n \in DOMAIN last.pre.lb : last.pre.lb[n].Publicipid = "ip-1"
  /\ lbRules = EmptyMap
  /\ "ip-1" \in allocated

----------------------------------------------------------------------------
(* C7 *)

\* C7 (as claimed): after a successful Delete of the Service no public IP that
\* the controller allocated for it is still allocated.
C7_AllocatedIpReleased ==
  (last.op = "Delete" /\ ~last.err) => byController = {}

----------------------------------------------------------------------------
(* C8 *)

\* the entry is a call that updateFirewallRule issued for the IP, protocol and port
Reconciles(e, ipid, proto, port) ==
  /\ e.by = "updateFirewallRule"
  /\ e.ip = ipid
  /\ e.proto = proto
  /\ e.port = port

\* C8: within one run of updateFirewallRule for a public IP, protocol and port,
\* no delete of a firewall rule comes after the create of the new rule, and when
\* the new rule is created, a delete has been issued for every rule of the IP
\* with the same protocol and port and another CIDR list.
C8_DeletesBeforeCreate ==
  last.op = "Ensure" =>
    \A k \in Calls("CreateFirewallRule") :
      /\ \A d \in Calls("DeleteFirewallRule") :
           Reconciles(Log[d], Log[k].ip, Log[k].proto, Log[k].port) => d < k
      /\ \A r \in last.pre.fw :
           (/\ r.Ipaddressid = Log[k].ip
            /\ r.Protocol = Log[k].proto
            /\ r.Startport = Log[k].port
            /\ r.Endport = Log[k].port
            /\ ~compareStringSlice(r.Cidrlist, Log[k].arg))
           => \E d \in Calls("DeleteFirewallRule") :
                /\ d < k
                /\ Log[d].ip = r.Ipaddressid
                /\ Log[d].proto = r.Protocol
                /\ Log[d].port = r.Startport
                /\ Log[d].arg = r.Cidrlist

\* an Ensure replaced the firewall rule of a port: it deleted the rule with the
\* old CIDR list and created the rule with the new one
C8_Witness ==
  /\ last.op = "Ensure"
  /\ \E k \in Calls("CreateFirewallRule"), d \in Calls("DeleteFirewallRule") :
       /\ Log[k].ok
       /\ Log[d].ok
       /\ Reconciles(Log[k], Log[d].ip, Log[d].proto, Log[d].port)
       /\ Reconciles(Log[d], Log[k].ip, Log[k].proto, Log[k].port)
       /\ Log[d].arg # Log[k].arg

----------------------------------------------------------------------------
(* C9 *)

\* an Ensure of a Service with supported ports in which a delete of a firewall
\* rule failed and no other call did
OnlyFirewallDeleteFailed ==
  /\ last.op = "Ensure"
  /\ \A p \in PortsOf(service) :
       ProtocolFromServicePort(p, service.Annotations) # LoadBalancerProtocolInvalid
  /\ \E i \in 1..Len(Log) : ~Log[i].ok
  /\ \A i \in 1..Len(Log) : ~Log[i].ok => Log[i].call = "DeleteFirewallRule"

\* C9 (as claimed): an Ensure in which only deletes of firewall rules fail does
\* not return an error.
C9_BestEffortDeletes ==
  OnlyFirewallDeleteFailed => ~last.err

----------------------------------------------------------------------------
(* C10 *)

\* the Ensure that just returned an error had associated the public IP
FailedAfterAssociate(a) ==
  /\ last.op = "Ensure"
  /\ last.err
  /\ a \in Calls("AssociateIpAddress")
  /\ Log[a].ok

\* C10: an Ensure that associated a public IP and then failed issues one
\* disassociate, of that IP, as its last call, and takes back nothing else:
\* it deletes no LB rule and removes no member, and the LB rules and firewall
\* rules it created are still there.
C10_ReleaseOnFailedEnsure ==
  \A a \in 1..Len(Log) :
    FailedAfterAssociate(a) =>
      /\ Cardinality(Calls("DisassociateIpAddress")) = 1
      /\ Log[Len(Log)].call = "DisassociateIpAddress"
      /\ Log[Len(Log)].ip = Log[a].ip
      /\ Calls("DeleteLoadBalancerRule") = {}
      /\ Calls("RemoveFromLoadBalancerRule") = {}
      /\ \A k \in Calls("CreateLoadBalancerRule") : Log[k].ok => Log[k].rule \in DOMAIN lbRules
      /\ \A k \in Calls("CreateFirewallRule") :
           Log[k].ok => FirewallRule(Log[k].ip, Log[k].proto, Log[k].port, Log[k].arg) \in fwRules

\* an Ensure associated an IP, created an LB rule, failed at a later step and
\* released the IP
C10_Witness ==
  \E a \in 1..Len(Log) :
    /\ FailedAfterAssociate(a)
    /\ \E k \in Calls("CreateLoadBalancerRule") : Log[k].ok
    /\ Log[Len(Log)].call = "DisassociateIpAddress"
    /\ Log[Len(Log)].ok
    /\ Log[a].ip \notin allocated

----------------------------------------------------------------------------
(* C12: ProtocolFromServicePort returns TCP-PROXY exactly for a TCP port whose
   proxy-protocol annotation has the value "true"; TCP for a TCP port whose
   annotation is absent, "false" or anything else; UDP for a UDP port; and
   INVALID for SCTP and every other protocol. *)
C12_ProxyOnlyWhenTrue ==
  (probe.fn = "ProtocolFromServicePort" /\ probe.done) =>
    probe.protocol =
      CASE probe.port.Protocol = "TCP" /\ probe.value = "true" -> LoadBalancerProtocolTCPProxy
        [] probe.port.Protocol = "TCP" /\ probe.value # "true" -> LoadBalancerProtocolTCP
        [] probe.port.Protocol = "UDP" -> LoadBalancerProtocolUDP
        [] OTHER -> LoadBalancerProtocolInvalid

----------------------------------------------------------------------------
\* the entries of a source-CIDR annotation value: split at the commas, trimmed
CidrEntries(value) ==
  CASE value = "" -> <<>>
    [] value = "10.0.0.0/8, 192.168.0.0/16" -> <<"10.0.0.0/8", "192.168.0.0/16">>
    [] OTHER -> <<value>>

IsCidr(entry) ==
  entry \in {"0.0.0.0/0", "10.0.0.0/8", "192.168.0.0/16"}

HasSourceCidrs(svc) ==
  ServiceAnnotationLoadBalancerSourceCidrs \in DOMAIN svc.Annotations

\* the allowed-source list by precedence: annotation, source ranges, default
CidrListByPrecedence(svc) ==
  IF HasSourceCidrs(svc)
  THEN CidrEntries(svc.Annotations[ServiceAnnotationLoadBalancerSourceCidrs])
  ELSE IF Len(svc.LoadBalancerSourceRanges) # 0 THEN svc.LoadBalancerSourceRanges
  ELSE <<defaultAllowedCIDR>>

InvalidSourceCidrs(svc) ==
  /\ HasSourceCidrs(svc)
  /\ \E e \in SeqToSet(CidrListByPrecedence(svc)) : ~IsCidr(e)

(* C11: the allowed-source CIDR list that Ensure uses for the perimeter rules
   is the list of the source-cidrs annotation when the annotation is present,
   otherwise the Service's loadBalancerSourceRanges, otherwise 0.0.0.0/0; an
   annotation entry that is not a CIDR makes Ensure fail. *)
C11_CidrSourcePrecedence ==
  last.op = "Ensure" =>
    IF InvalidSourceCidrs(service) THEN last.err
    ELSE CidrListByPrecedence(service) # <<>> =>
           /\ \A i \in Calls("CreateFirewallRule") :
                Log[i].arg = CidrListByPrecedence(service)
           /\ ~last.err => \A r \in fwRules : r.Cidrlist = CidrListByPrecedence(service)

----------------------------------------------------------------------------
FirewallCalls ==
  {"ListFirewallRules", "CreateFirewallRule", "DeleteFirewallRule"}

NetworkACLCalls ==
  {"ListNetworkACLs", "CreateNetworkACL", "DeleteNetworkACL"}

PerimeterMutations ==
  {"CreateFirewallRule", "DeleteFirewallRule", "CreateNetworkACL", "DeleteNetworkACL"}

\* the perimeter calls that Ensure issued while it reconciled its ports
PortPerimeterCalls(calls) ==
  {i \in 1..Len(Log) : Log[i].call \in calls /\ Log[i].by = "updateFirewallRule"}
    \cup {i \in 1..Len(Log) : Log[i].call \in calls /\ Log[i].by = "updateNetworkACL"}

(* C13: for each reconciled port, Ensure issues firewall-rule calls only when
   the service set of the network contains "Firewall", network-ACL calls only
   when it contains "NetworkACL", never both, and no perimeter mutation when
   the network has neither capability. *)
C13_PerimeterModeSelection ==
  (last.op = "Ensure" /\ probe.fn = "network") =>
    /\ PortPerimeterCalls(FirewallCalls) # {} => "Firewall" \in probe.services
    /\ PortPerimeterCalls(NetworkACLCalls) # {} => "NetworkACL" \in probe.services
    /\ PortPerimeterCalls(FirewallCalls) = {} \/ PortPerimeterCalls(NetworkACLCalls) = {}
    /\ probe.services \cap {"Firewall", "NetworkACL"} = {} =>
         PortPerimeterCalls(PerimeterMutations) = {}

----------------------------------------------------------------------------
\* the entries that match the port: its IP protocol, startPort = endPort = publicPort
MatchingAcls(acls, protocol, port) ==
  {a \in acls : /\ a.Protocol = IPProtocol(protocol)
                /\ a.Startport = Itoa(port)
                /\ a.Endport = Itoa(port)}

AclMutations ==
  Calls("CreateNetworkACL") \cup Calls("DeleteNetworkACL")

(* C14: on an ACL list that is not default_allow or default_deny, if an entry
   with the port's IP protocol and startPort = endPort = publicPort exists, no
   ACL mutation is issued; otherwise exactly one entry is created, with action
   Allow, direction Ingress and CIDR 0.0.0.0/0; on default_allow and
   default_deny no entry is listed or created. *)
C14_AclReconciliation ==
  (last.op = "updateNetworkACL" /\ Calls("GetNetworkByID") # {}
     /\ \A i \in Calls("GetNetworkByID") : Log[i].ok) =>
    IF probe.aclName \in {"default_allow", "default_deny"}
    THEN Calls("ListNetworkACLs") = {} /\ AclMutations = {}
    ELSE IF MatchingAcls(probe.before, probe.protocol, probe.port) # {}
    THEN AclMutations = {}
    ELSE /\ Cardinality(Calls("CreateNetworkACL")) = 1
         /\ AclMutations = Calls("CreateNetworkACL")
         /\ \A i \in Calls("CreateNetworkACL") :
              /\ Log[i].rule.Action = "Allow"
              /\ Log[i].rule.Traffictype = "Ingress"
              /\ Log[i].rule.Cidrlist = <<"0.0.0.0/0">>
              /\ Log[i].rule.Protocol = IPProtocol(probe.protocol)
              /\ Log[i].rule.Startport = Itoa(probe.port)
              /\ Log[i].rule.Endport = Itoa(probe.port)

----------------------------------------------------------------------------
\* the host part of a lower-cased node name: <host> of <host>.<domain>
HostPart(name) ==
  CASE name = "node1.example.com" -> "node1"
    [] OTHER -> name

\* the positions of the listed VMs whose lower-cased name is the lower-cased
\* host part of some node name
SelectedVms(vms, nodeNames) ==
  {i \in 1..Len(vms) : ToLower(vms[i].Name) \in {HostPart(ToLower(n)) : n \in nodeNames}}

VerifiedHosts ==
  probe.fn = "verifyHosts" /\ probe.done /\ probe.listed

(* C15: when none of the listed VMs matches any of the given nodes,
   verifyHosts returns an error, so that Ensure and Update abort before they
   acquire an IP or issue any mutating call. *)
C15_NoMatchingHostFails ==
  (probe.fn = "verifyHosts" /\ SelectedVms(probe.vms, nodes) = {}) =>
    /\ (probe.done /\ probe.listed) => probe.err
    /\ last.op \in {"Ensure", "Update"} =>
         /\ last.err
         /\ Mutations = {}
         /\ Calls("ListPublicIpAddresses") \cup Calls("AssociateIpAddress") = {}

(* C16: verifyHosts selects a VM if and only if the lower-cased VM name equals
   the lower-cased host part of some node name (<host> of <host>.<domain>);
   the returned host IDs are exactly the IDs of the selected VMs. *)
C16_MatchesHostPart ==
  (VerifiedHosts /\ ~probe.err) =>
    probe.hostIDs =
      SelectSeqBy([i \in 1..Len(probe.vms) |-> probe.vms[i].Id],
                  {probe.vms[i].Id : i \in SelectedVms(probe.vms, nodes)})

(* C17: verifyHosts returns an error whenever two matched VMs have different
   primary-NIC network IDs, whatever the order in which the VMs are listed;
   when it succeeds, every returned host ID belongs to a VM on the returned
   network ID. *)
C17_SingleNetwork ==
  VerifiedHosts =>
    /\ (\E i, j \in SelectedVms(probe.vms, nodes) :
          probe.vms[i].Networkid # probe.vms[j].Networkid) => probe.err
    /\ ~probe.err =>
         \A k \in 1..Len(probe.hostIDs) :
           \E i \in 1..Len(probe.vms) : /\ probe.vms[i].Id = probe.hostIDs[k]
                                        /\ probe.vms[i].Networkid = probe.networkID

----------------------------------------------------------------------------
\* the successful lookups of the requested IP by getPublicIPAddress
Lookups ==
  {i \in Calls("ListPublicIpAddresses") : Log[i].by = "getPublicIPAddress" /\ Log[i].ok}

RequestedIpId ==
  (CHOOSE ip \in PublicIps : ip.Ipaddress = service.LoadBalancerIP).Id

(* C18: when the requested loadBalancerIP resolves to exactly one public IP
   that is not allocated, getPublicIPAddress associates that IP (one associate
   call after the lookup) and marks it as associated by the controller; when
   the IP is already allocated, no associate call is issued and the IP is not
   marked as associated by the controller. *)
C18_RequestedIpAssociated ==
  (last.op = "Ensure" /\ Lookups # {}
     /\ \E ip \in PublicIps : ip.Ipaddress = service.LoadBalancerIP) =>
    IF RequestedIpId \notin last.pre.al
    THEN /\ Cardinality(Calls("AssociateIpAddress")) = 1
         /\ \A i \in Calls("AssociateIpAddress") :
              /\ \A j \in Lookups : j < i
              /\ Log[i].ok => /\ Log[i].ip = RequestedIpId
                              /\ RequestedIpId \in last.pre.bc
                                    \/ last.err
                                    \/ RequestedIpId \in byController
    ELSE /\ Calls("AssociateIpAddress") = {}
         /\ RequestedIpId \in byController => RequestedIpId \in last.pre.bc

----------------------------------------------------------------------------
\* equal as multisets: every element occurs as often in x as in y
SameMultiset(x, y) ==
  \A e \in SeqToSet(x) \cup SeqToSet(y) : Occ(x, e) = Occ(y, e)

(* C19: compareStringSlice(x, y) is true if and only if x and y are equal as
   multisets (the same number of occurrences of every element, whatever the
   order); it is symmetric, and nil and the empty list are equal. *)
C19_MultisetEquality ==
  (probe.fn = "compareStringSlice" /\ probe.done) =>
    /\ probe.xy <=> SameMultiset(probe.x.elems, probe.y.elems)
    /\ probe.xy <=> probe.yx
    /\ (probe.x.nil /\ ~probe.y.nil /\ probe.y.elems = <<>>) => probe.xy

\* two lists of the same length over the same elements that differ in how
\* often an element occurs have been compared and found different
C19_Witness ==
  /\ probe.fn = "compareStringSlice" /\ probe.done
  /\ Len(probe.x.elems) = Len(probe.y.elems)
  /\ SeqToSet(probe.x.elems) = SeqToSet(probe.y.elems)
  /\ ~SameMultiset(probe.x.elems, probe.y.elems)
  /\ ~probe.xy

\* a list and a different order of it, an element repeated, have been found equal
C19_WitnessReordered ==
  /\ probe.fn = "compareStringSlice" /\ probe.done
  /\ probe.x.elems # probe.y.elems
  /\ \E e \in SeqToSet(probe.x.elems) : Occ(probe.x.elems, e) > 1
  /\ probe.xy

----------------------------------------------------------------------------
\* the rules for the probe's protocol and port that allow 0.0.0.0/0, before the call
DefaultRulesBefore ==
  {r \in last.pre.fw : /\ r.Ipaddressid = "ip-2"
                       /\ r.Protocol = IPProtocol(probe.protocol)
                       /\ r.Startport = probe.port
                       /\ r.Endport = probe.port
                       /\ r.Cidrlist = <<defaultAllowedCIDR>>}

EmptyListCall ==
  /\ probe.fn = "updateFirewallRule"
  /\ last.op = "updateFirewallRule"
  /\ probe.allowedIPs = <<>>

(* C20: called with an empty allowed-CIDR list, updateFirewallRule behaves
   exactly as if the list were [0.0.0.0/0]: an existing rule for (protocol,
   port) with CIDR list 0.0.0.0/0 is kept as the match, and otherwise a rule
   with CIDR list 0.0.0.0/0 is created. *)
C20_EmptyListIsDefault ==
  EmptyListCall =>
    /\ probe.result = probe.asIf
    /\ (\E i \in Calls("ListFirewallRules") : Log[i].ok) =>
         IF DefaultRulesBefore # {}
         THEN /\ DefaultRulesBefore \subseteq fwRules
              /\ Calls("CreateFirewallRule") = {}
         ELSE /\ Cardinality(Calls("CreateFirewallRule")) = 1
              /\ \A i \in Calls("CreateFirewallRule") :
                   /\ Log[i].arg = <<defaultAllowedCIDR>>
                   /\ Log[i].proto = IPProtocol(probe.protocol)
                   /\ Log[i].port = probe.port
                   /\ Log[i].ok => FirewallRule("ip-2", Log[i].proto, Log[i].port,
                                                <<defaultAllowedCIDR>>) \in fwRules

\* called with the empty list, the rule for 0.0.0.0/0 was created after a
\* rule with another CIDR list for the same port was deleted
C20_Witness ==
  /\ EmptyListCall
  /\ ~last.err
  /\ DefaultRulesBefore = {}
  /\ Calls("DeleteFirewallRule") # {}
  /\ \E i \in Calls("CreateFirewallRule") : Log[i].ok /\ Log[i].arg = <<defaultAllowedCIDR>>

\* called with the empty list, the existing rule for 0.0.0.0/0 was kept
\* while the other rule for the port was deleted
C20_WitnessKept ==
  /\ EmptyListCall
  /\ DefaultRulesBefore # {}
  /\ DefaultRulesBefore \subseteq fwRules
  /\ \E i \in Calls("DeleteFirewallRule") : Log[i].ok

----------------------------------------------------------------------------
FailedCreates ==
  {i \in Calls("CreateFirewallRule") : ~Log[i].ok}

(* C21: if the create of the new firewall rule fails, updateFirewallRule
   returns (false, error), and Ensure returns that error at once: it processes
   no further port and runs no cleanup of obsolete rules (only the deferred
   release of the IP follows). *)
C21_CreateFailureAborts ==
  FailedCreates # {} =>
    /\ (last.op = "updateFirewallRule" /\ probe.fn = "updateFirewallRule") =>
         /\ probe.result.err
         /\ ~probe.result.ret
         /\ \A i \in FailedCreates : i = Len(Log)
    /\ last.op = "Ensure" =>
         /\ last.err
         /\ \A i \in FailedCreates :
              \A j \in (i + 1)..Len(Log) : Log[j].by = "releaseLoadBalancerIP"

\* the create for the first of two ports failed, and no call was made for the second
C21_Witness ==
  /\ last.op = "Ensure"
  /\ Len(service.Ports) = 2
  /\ \E i \in FailedCreates : Log[i].port = service.Ports[1].Port
  /\ \A j \in 1..Len(Log) : Log[j].port # service.Ports[2].Port

\* the create failed while an obsolete rule was waiting for the cleanup, and the
\* rule is still there
C21_WitnessCleanup ==
  /\ last.op = "Ensure"
  /\ FailedCreates # {}
  /\ \E n \in DOMAIN last.pre.lb :
       /\ n \notin {DesiredName(service, service.Ports[k]) : k \in 1..Len(service.Ports)}
       /\ n \in DOMAIN lbRules

\* updateFirewallRule on its own returned (false, error) after the failed create
C21_WitnessAlone ==
  /\ last.op = "updateFirewallRule"
  /\ FailedCreates # {}
  /\ probe.result.err /\ ~probe.result.ret

----------------------------------------------------------------------------
\* the value of the hostname annotation, "" when the Service does not have it
HostnameOf(svc) ==
  IF ServiceAnnotationLoadBalancerLoadbalancerHostname \in DOMAIN svc.Annotations
  THEN svc.Annotations[ServiceAnnotationLoadBalancerLoadbalancerHostname]
  ELSE ""

(* C22: a successful Ensure returns an ingress status that carries the
   hostname when the hostname annotation of the Service is set (non-empty),
   and the public IP of the load balancer otherwise. *)
C22_IngressStatus ==
  (last.op = "Ensure" /\ ~last.err) =>
    IF HostnameOf(service) # ""
    THEN last.status = Ingress("", HostnameOf(service))
    ELSE /\ last.status.Hostname = ""
         /\ last.status.IP \in {lbRules[n].Publicip : n \in DOMAIN lbRules}


\* C23: GetLoadBalancer issues the call that lists the load balancer rules and
\* no other call; it reports exists = false exactly when that call returned no
\* rule (it failed, or there is none), and else exists = true with the public
\* IP of one of the listed rules.
C23_GetIsReadOnly ==
  last.op = "Get" =>
    /\ \A i \in 1..Len(Log) : Log[i].call = "ListLoadBalancerRules"
    /\ Len(Log) = 1
    /\ Snapshot = last.pre
    /\ last.exists <=> (~last.err /\ DOMAIN last.pre.lb # {})
    /\ last.exists =>
         /\ last.status.Hostname = ""
         /\ last.status.IP \in {last.pre.lb[n].Publicip : n \in DOMAIN last.pre.lb}
    /\ ~last.exists => last.status = NoStatus

C23_Witness ==
  /\ last.op = "Get"
  /\ last.exists
  /\ Cardinality(DOMAIN lbRules) = 2

C23_WitnessNone ==
  /\ last.op = "Get"
  /\ ~last.err
  /\ ~last.exists
  /\ byController # {}


\* C24: when the Service has no load balancer rule, EnsureLoadBalancerDeleted
\* issues no mutating call, changes nothing and returns nil unless it could not
\* list the rules; a Delete that returned nil has left no load balancer rule
\* behind, so a second Delete right after it is such a no-op.
C24_DeleteTwiceIsNoOp ==
  last.op = "Delete" =>
    /\ ~last.err => DOMAIN lbRules = {}
    /\ DOMAIN last.pre.lb = {} =>
         /\ Mutations = {}
         /\ Snapshot = last.pre
         /\ last.err <=> (\E i \in Calls("ListLoadBalancerRules") : ~Log[i].ok)

C24_Witness ==
  /\ last.op = "Delete"
  /\ ~last.err
  /\ DOMAIN last.pre.lb = {}
  /\ Len(Log) = 1

C24_WitnessLeftover ==
  /\ C24_Witness
  /\ fwRules # {}


\* C25: EnsureLoadBalancer for a Service without a port returns an error and
\* issues no CloudStack call, not even one that only reads.
C25_NoPortNoCall ==
  (last.op = "Ensure" /\ Len(service.Ports) = 0) =>
    /\ last.err
    /\ Log = <<>>
    /\ Snapshot = last.pre

C25_Witness ==
  /\ last.op = "Ensure"
  /\ Len(service.Ports) = 0
  /\ last.err
  /\ DOMAIN lbRules # {}


\* C26: once the context passed to EnsureLoadBalancer is cancelled, the run
\* issues no further mutating CloudStack call.
C26_NoMutationAfterCancel ==
  (last.op = "Ensure" /\ probe.fn = "ctx") =>
    \A i \in Mutations : i <= probe.cancelledAt


\* C27: the name of the load balancer rule of a port is the base name, the
\* resolved protocol and the public port joined by "-"; two ports of one
\* Service get the same name when they agree in resolved protocol and public
\* port, whatever else differs, and different names when they differ in either.
C27_RuleNaming ==
  (probe.fn = "lbRuleName" /\ probe.done) =>
    LET an == AnnotationsWith(ServiceAnnotationLoadBalancerProxyProtocol, probe.value)
        p == ProtocolFromServicePort(probe.port, an)
        q == ProtocolFromServicePort(probe.other, an)
        same == p = q /\ probe.port.Port = probe.other.Port
    IN /\ probe.names[1] \in
            {probe.base \o "-" \o pr \o "-" \o po :
               pr \in {"tcp", "udp", "tcp-proxy"}, po \in {"8", "80", "8000"}}
       /\ (probe.names[1] = probe.names[2]) <=> same
       /\ same <=> (RuleName(probe.base, p, probe.port.Port)
                      = RuleName(probe.base, q, probe.other.Port))

C27_Witness ==
  /\ probe.fn = "lbRuleName"
  /\ probe.done
  /\ probe.port.Protocol = "TCP"
  /\ probe.other.Protocol = "UDP"
  /\ probe.port.Port = probe.other.Port
  /\ probe.names = <<"svc-tcp-8000", "svc-udp-8000">>

C27_WitnessSame ==
  /\ probe.fn = "lbRuleName"
  /\ probe.done
  /\ probe.port.NodePort # probe.other.NodePort
  /\ probe.names = <<"svc-tcp-tcp-proxy-80", "svc-tcp-tcp-proxy-80">>


\* C28: when the Service requests a load balancer IP, a successful Ensure leaves
\* every load balancer rule of the Service on that IP, also when the rules were
\* on another IP before, and returns that IP as the ingress.
C28_ConvergesToRequestedIp ==
  (last.op = "Ensure" /\ ~last.err /\ service.LoadBalancerIP # "") =>
    /\ \A n \in DOMAIN lbRules : lbRules[n].Publicip = service.LoadBalancerIP
    /\ last.status.IP = service.LoadBalancerIP


\* C29: after a successful Ensure, the rule of every desired port has exactly
\* the resolved hosts as its members, also when the rule existed before with
\* matching fields and other members.
C29_MembersConverge ==
  (last.op = "Ensure" /\ ~last.err) =>
    \A p \in PortsOf(service) :
      DesiredName(service, p) \in DOMAIN lbRules =>
        lbRules[DesiredName(service, p)].Instances
          = {VirtualMachines[i].Id : i \in SelectedVms(VirtualMachines, nodes)}


\* C30: after a successful Ensure each desired port has a firewall rule on the
\* IP of its load balancer rule, with the port's IP protocol, the public port as
\* start and end port and the desired CIDR list, also when the obsolete rule of
\* the same port under the other TCP protocol was cleaned up in that Ensure.
C30_PerimeterRulePresent ==
  (last.op = "Ensure" /\ ~last.err) =>
    \A p \in PortsOf(service) :
      DesiredName(service, p) \in DOMAIN lbRules =>
        \E f \in PortFirewall(Snapshot, service, p, lbRules[DesiredName(service, p)].Publicipid) :
          SameMultiset(f.Cidrlist, DesiredCidrs(service))


\* C31: when EnsureLoadBalancerDeleted returns nil, every rule that was listed
\* for the Service is deleted, also a rule whose protocol or public port does
\* not parse; the firewall rules of a rule are deleted right before the rule,
\* and the IP is disassociated only after all the rules are deleted.
C31_DeleteCompleteAndOrdered ==
  (last.op = "Delete" /\ ~last.err) =>
    /\ DOMAIN lbRules = {}
    /\ \A i \in Calls("DeleteLoadBalancerRule") :
         ~ParseIntErr(last.pre.lb[Log[i].rule].Publicport) =>
           /\ i > 1
           /\ Log[i - 1].by = "deleteFirewallRule"
           /\ Log[i - 1].ip = Log[i].ip
    /\ \A i \in Calls("DeleteFirewallRule") :
         \E j \in Calls("DeleteLoadBalancerRule") :
           /\ i < j
           /\ \A k \in (i + 1)..(j - 1) : Log[k].by = "deleteFirewallRule"
    /\ \A i \in Calls("DisassociateIpAddress") :
         /\ i = Len(Log)
         /\ Cardinality(Calls("DeleteLoadBalancerRule")) = Cardinality(DOMAIN last.pre.lb)


\* C32: Ensure and Delete delete only load balancer rules whose name begins with
\* the base name of the Service and "-"; a rule of another Service, listed
\* because its name contains the base name, is not deleted and neither is its
\* firewall rule.
C32_OwnershipByPrefix ==
  last.op \in {"Ensure", "Delete"} =>
    /\ \A i \in Calls("DeleteLoadBalancerRule") : Log[i].rule.base = service.Name
    /\ \A n \in DOMAIN last.pre.lb :
         n.base # service.Name =>
           /\ n \in DOMAIN lbRules
           /\ \A f \in last.pre.fw :
                (/\ f.Ipaddressid = last.pre.lb[n].Publicipid
                 /\ f.Protocol = IPProtocol(ProtocolFromLoadBalancer(last.pre.lb[n].Protocol))
                 /\ f.Startport = ParseInt(last.pre.lb[n].Publicport)) => f \in fwRules


\* C33: whatever the sequence of Ensure, Update and Delete calls on several
\* Services, the controller never disassociates a public IP while a load
\* balancer rule of another Service is on that IP.
C33_NoReleaseOfSharedIp ==
  \A i \in Calls("DisassociateIpAddress") :
    Log[i].ok =>
      \A n \in DOMAIN lbRules :
        n.base # service.Name => lbRules[n].Publicipid # Log[i].ip


\* the desired ports whose rule Ensure found under the port's name with the
\* public IP of the load balancer and both ports as desired
MatchingPorts ==
  {p \in PortsOf(service) :
     /\ ProtocolFromServicePort(p, service.Annotations) # LoadBalancerProtocolInvalid
     /\ DesiredName(service, p) \in DOMAIN last.pre.lb
     /\ LET r == last.pre.lb[DesiredName(service, p)]
        IN /\ \A n \in DOMAIN last.pre.lb : last.pre.lb[n].Publicip = r.Publicip
           /\ r.Publicport = Itoa(p.Port)
           /\ r.Privateport = Itoa(p.NodePort)}

RuleDiffers(p) ==
  LET r == last.pre.lb[DesiredName(service, p)]
  IN \/ r.Algorithm # DesiredAlgorithm(service)
     \/ r.Protocol # CSProtocol(ProtocolFromServicePort(p, service.Annotations))

RuleCalls(call, p) ==
  {i \in Calls(call) : Log[i].rule = DesiredName(service, p)}

\* C34: for a rule found under the name of a desired port with matching public
\* IP, public port and private port, Ensure issues no delete and no create of
\* that rule; it issues one update of it when the algorithm or the protocol
\* differs and none when both match; the rule is not cleaned up.
C34_UpdateInPlace ==
  last.op = "Ensure" =>
    \A p \in MatchingPorts :
      /\ RuleCalls("DeleteLoadBalancerRule", p) = {}
      /\ RuleCalls("CreateLoadBalancerRule", p) = {}
      /\ DesiredName(service, p) \in DOMAIN lbRules
      /\ ~RuleDiffers(p) => RuleCalls("UpdateLoadBalancerRule", p) = {}
      /\ RuleDiffers(p) =>
           /\ Cardinality(RuleCalls("UpdateLoadBalancerRule", p)) <= 1
           /\ ~last.err => Cardinality(RuleCalls("UpdateLoadBalancerRule", p)) = 1

C34_Witness ==
  /\ last.op = "Ensure"
  /\ ~last.err
  /\ \E p \in MatchingPorts :
       /\ RuleDiffers(p)
       /\ Cardinality(RuleCalls("UpdateLoadBalancerRule", p)) = 1
       /\ lbRules[DesiredName(service, p)].Algorithm = DesiredAlgorithm(service)

C34_WitnessUpToDate ==
  /\ last.op = "Ensure"
  /\ ~last.err
  /\ Cardinality(PortsOf(service)) = 2
  /\ \E p \in MatchingPorts : ~RuleDiffers(p) /\ Calls("DeleteLoadBalancerRule") # {}


\* C35: UpdateLoadBalancer issues only list calls and calls that assign hosts
\* to or remove hosts from a rule: apart from their members the rules, and the
\* firewall rules and the IPs, stay as they were; after a successful Update
\* every rule of the Service has exactly the resolved hosts as members; a call
\* that fails is the last call of the Update, and a rule not yet handled is
\* as it was.
C35_UpdateMembersOnly ==
  last.op = "Update" =>
    /\ \A i \in 1..Len(Log) :
         /\ Log[i].call \in {"ListLoadBalancerRules", "ListVirtualMachines",
                             "ListLoadBalancerRuleInstances", "AssignToLoadBalancerRule",
                             "RemoveFromLoadBalancerRule"}
         /\ ~Log[i].ok => i = Len(Log)
    /\ fwRules = last.pre.fw
    /\ allocated = last.pre.al
    /\ byController = last.pre.bc
    /\ DOMAIN lbRules = DOMAIN last.pre.lb
    /\ \A n \in DOMAIN lbRules :
         /\ [lbRules[n] EXCEPT !.Instances = {}] = [last.pre.lb[n] EXCEPT !.Instances = {}]
         /\ ~last.err =>
              lbRules[n].Instances
                = {VirtualMachines[i].Id : i \in SelectedVms(VirtualMachines, nodes)}
         /\ (\A i \in 1..Len(Log) : Log[i].rule # n) => lbRules[n] = last.pre.lb[n]

C35_Witness ==
  /\ last.op = "Update"
  /\ ~last.err
  /\ Calls("RemoveFromLoadBalancerRule") # {}
  /\ Cardinality(DOMAIN lbRules) = 2

C35_WitnessAssign ==
  /\ last.op = "Update"
  /\ ~last.err
  /\ Calls("AssignToLoadBalancerRule") # {}

C35_WitnessStopped ==
  /\ last.op = "Update"
  /\ last.err
  /\ Calls("AssignToLoadBalancerRule") # {}
  /\ \E n \in DOMAIN lbRules :
       /\ \A i \in 1..Len(Log) : Log[i].rule # n
       /\ lbRules[n].Instances # {VirtualMachines[i].Id : i \in SelectedVms(VirtualMachines, nodes)}


\* the firewall rules of S on the IP, with the IP protocol and the port of the call
RulesOfCall(S) ==
  {r \in S : /\ r.Ipaddressid = "ip-2"
             /\ r.Protocol = IPProtocol(probe.protocol)
             /\ r.Startport = probe.port
             /\ r.Endport = probe.port}

\* C36: when updateFirewallRule returns no error and every delete it issued
\* succeeded, the IP has exactly one firewall rule with the IP protocol and the
\* port of the call, its CIDR list is the desired list as a multiset, and the
\* rules of the IP with another protocol or port are as before.
C36_FirewallPostState ==
  (/\ probe.fn = "updateFirewallRule"
   /\ last.op = "updateFirewallRule"
   /\ ~last.err
   /\ \A i \in Calls("DeleteFirewallRule") : Log[i].ok) =>
    LET desired == IF probe.allowedIPs = <<>> THEN <<defaultAllowedCIDR>>
                   ELSE probe.allowedIPs
    IN /\ Cardinality(RulesOfCall(fwRules)) = 1
       /\ \A r \in RulesOfCall(fwRules) : SameMultiset(r.Cidrlist, desired)
       /\ fwRules \ RulesOfCall(fwRules) = last.pre.fw \ RulesOfCall(last.pre.fw)
       /\ \A i \in Calls("DeleteFirewallRule") \cup Calls("CreateFirewallRule") :
            Log[i].proto = IPProtocol(probe.protocol) /\ Log[i].port = probe.port

\* the rule with the desired list in another order is kept, the two other
\* rules of the port are deleted, the rules of the other ports stay
C36_Witness ==
  /\ probe.fn = "updateFirewallRule"
  /\ last.op = "updateFirewallRule"
  /\ ~last.err
  /\ probe.allowedIPs = <<"10.0.0.0/8", "192.168.0.0/16">>
  /\ Cardinality(Calls("DeleteFirewallRule")) = 2
  /\ \A i \in Calls("DeleteFirewallRule") : Log[i].ok
  /\ RulesOfCall(fwRules) = {FirewallRule("ip-2", "tcp", 80, <<"192.168.0.0/16", "10.0.0.0/8">>)}
  /\ Cardinality(fwRules) = 3

C36_WitnessCreated ==
  /\ probe.fn = "updateFirewallRule"
  /\ last.op = "updateFirewallRule"
  /\ ~last.err
  /\ Calls("DeleteFirewallRule") # {}
  /\ \A i \in Calls("DeleteFirewallRule") : Log[i].ok
  /\ Calls("CreateFirewallRule") # {}


\* C37: for a port whose rule Ensure creates, the create call is followed by
\* the reconciliation of the port's firewall rule, and that by one call that
\* assigns all the resolved hosts to the rule; no call for the next port comes
\* in between.
C37_CreateThenPerimeterThenAssign ==
  last.op = "Ensure" =>
    \A i \in Calls("CreateLoadBalancerRule") :
      \A a \in Calls("AssignToLoadBalancerRule") :
        Log[a].rule = Log[i].rule =>
          /\ i < a
          /\ \E j \in (i + 1)..(a - 1) : Log[j].by = "updateFirewallRule"
          /\ \A j \in (i + 1)..(a - 1) : Log[j].by = "updateFirewallRule"
          /\ SeqToSet(Log[a].arg)
               = {VirtualMachines[k].Id : k \in SelectedVms(VirtualMachines, nodes)}


PatchRetryIsBounded ==
  probe.fn = "setServiceAnnotation" =>
    LET n == Len(probe.results)
    IN /\ n <= 3
       /\ \A i \in 1..(n - 1) : probe.results[i] = "conflict"
       /\ probe.slept = probe.attempt
       /\ probe.attempt < 3
       /\ probe.pc = "patch" => (n < 3 /\ probe.attempt = n)
       /\ (probe.pc = "done" /\ n > 0) =>
            CASE probe.results[n] \in {"nil", "notfound"} -> probe.ret = "nil"
              [] probe.results[n] = "other" -> probe.ret = "error"
              [] probe.results[n] = "conflict" -> probe.ret = "error" /\ n = 3

\* C38: patchServiceAnnotation always returns, after at most 3 Patch calls; it
\* issues another call only after a conflict; it returns nil on the first
\* Patch that succeeds or that reports the Service as not found, an error on
\* any other error, and an error after the third conflict.
C38_BoundedPatchRetry ==
  /\ []PatchRetryIsBounded
  /\ (probe.fn = "setServiceAnnotation") ~> (probe.pc = "done")

C38_Witness ==
  /\ probe.fn = "setServiceAnnotation"
  /\ probe.pc = "done"
  /\ probe.results = <<"conflict", "conflict", "conflict">>
  /\ probe.ret = "error"

C38_WitnessRetried ==
  /\ probe.fn = "setServiceAnnotation"
  /\ probe.pc = "done"
  /\ probe.results = <<"conflict", "conflict", "nil">>
  /\ probe.ret = "nil"
  /\ probe.stored = probe.value

----------------------------------------------------------------------------
(* C39 *)

\* the number a component stands for once its suffix is ignored: the digits
\* before the first "-", 0 when there are none
NumberOf(component) ==
  LET i == IndexRune(component, "-")
      head == IF i = 0 THEN component ELSE SubSeq(component, 1, i - 1)
  IN IF Len(head) = 0 \/ ~containsOnly(head, Numbers) THEN 0 ELSE ParseUint(head)

VersionCallDone ==
  probe.fn = "getManagementServerVersion" /\ probe.pc = "done"

\* what C39 says apart from the absence of a crash
VersionOrError ==
  VersionCallDone /\ probe.ret.kind # "panic" =>
    /\ probe.ret.kind \in {"version", "error"}
    /\ (probe.apiErr \/ probe.count = 0) => probe.ret.kind = "error"
    /\ probe.ret.kind = "version" =>
         LET components == Split(probe.version)
         IN /\ Len(components) >= 3
            /\ probe.ret.Major = NumberOf(components[1])
            /\ probe.ret.Minor = NumberOf(components[2])
            /\ probe.ret.Patch = NumberOf(components[3])

\* C39: for every version string the management server reports,
\* getManagementServerVersion returns the version made of the first three
\* dot-separated components or an error, returns an error when no server is
\* listed, and never crashes, a string of fewer than three components included.
C39_VersionParsing ==
  /\ VersionCallDone => probe.ret.kind # "panic"
  /\ VersionOrError

\* a string of two components makes the call panic
C39_ShortVersion ==
  /\ VersionCallDone
  /\ probe.version = <<"4", ".", "1", "7">>
  /\ ~probe.apiErr /\ probe.count = 1

\* four components and a suffix: the first three are returned
C39_LongVersion ==
  /\ VersionCallDone
  /\ probe.version = <<"4", ".", "1", "7", ".", "4", ".", "0", "-", "S">>
  /\ ~probe.apiErr /\ probe.count = 1
  /\ probe.ret = ParsedVersion(4, 17, 4, <<>>)

\* a suffix on the third component is kept as the pre-release of the version
C39_SuffixKept ==
  /\ VersionCallDone
  /\ probe.version = <<"4", ".", "1", "7", ".", "1", "-", "S">>
  /\ probe.ret = ParsedVersion(4, 17, 1, <<<<"S">>>>)

============================================================================
